---------------------------- MODULE Spec2Model ----------------------------
(***************************************************************************)
(* Model of the call-intelligence backend's Action Engine                  *)
(* (backend/services/action_engine.py): the business-rule layer that turns *)
(* an NLP signal bundle and an LLM recommendation into a final decision.   *)
(*                                                                         *)
(* Representation of Python values:                                        *)
(*   - a dict is a function whose DOMAIN is the set of keys present;       *)
(*     dict.get(k, d) is Get(dict, k, d);                                  *)
(*   - free text that the code inspects (the action text) is a sequence of *)
(*     one-character strings, so lower() and the `in` substring test are   *)
(*     computed and not assumed;                                           *)
(*   - priority_score is dynamically typed: IntV(n) is a Python int,       *)
(*     StrV(s) a Python str; comparing a str with an int raises TypeError; *)
(*   - sentiment compound is a float with two decimals, held in hundredths *)
(*     (0.5 is 50);                                                        *)
(*   - an audit entry of rules_applied is a record naming the rule and the *)
(*     numbers formatted into its text.                                    *)
(***************************************************************************)
EXTENDS Integers, Sequences, FiniteSets

VARIABLES
    nlp_analysis,   \* first argument of evaluate
    llm_output,     \* second argument of evaluate
    pc,             \* "called" | "returned" | "raised"
    decision,       \* the dict evaluate returned (NoDecision until it returns)
    safety_action,  \* argument of validate_action_safety
    safety_pc,      \* "idle" | "called" | "returned"
    safety_result,  \* the dict validate_action_safety returned
    calls_collection,   \* DatabaseService.calls_collection: the documents, by _id
    now,            \* datetime.utcnow(), in ticks
    last,           \* the last operation observed: its inputs and its result
    upload_folder,  \* UPLOAD_FOLDER: the files present, by name
    requests,       \* the upload requests in flight, by request
    active_conversations    \* ConversationService.active_conversations

engineVars == <<nlp_analysis, llm_output, pc, decision>>
safetyVars == <<safety_action, safety_pc, safety_result>>
appVars == <<calls_collection, now, last>>
uploadVars == <<upload_folder, requests>>
voiceVars == <<active_conversations>>
vars == <<nlp_analysis, llm_output, pc, decision,
          safety_action, safety_pc, safety_result,
          calls_collection, now, last,
          upload_folder, requests, active_conversations>>

---------------------------------------------------------------------------
(* Bounds of the model *)

MaxKeywords == 1    \* most keyword categories in a signal bundle
MaxEntities == 1    \* most entities in a signal bundle

---------------------------------------------------------------------------
(* ActionEngine.__init__ configuration *)

HIGH_PRIORITY_THRESHOLD == 85
CHURN_MINIMUM_PRIORITY == 90
STRONG_SENTIMENT_THRESHOLD == 50
BASE_CONFIDENCE == 70
SENTIMENT_BONUS == 10
KEYWORDS_BONUS == 10
ENTITIES_BONUS == 10
CONFIDENCE_CAP == 100
DEFAULT_PRIORITY == 50
DEFAULT_COMPOUND == 0

---------------------------------------------------------------------------
(* Text literals of evaluate *)

DEFAULT_ACTION ==
    <<"R","e","v","i","e","w"," ","c","a","l","l"," ","m","a","n","u","a","l","l","y">>
ESCALATE_ACTION ==
    <<"E","s","c","a","l","a","t","e"," ","t","o"," ","S","e","n","i","o","r"," ","M","a","n","a","g","e","r"," ","i","m","m","e","d","i","a","t","e","l","y">>
RETENTION_ACTION ==
    <<"R","o","u","t","e"," ","t","o"," ","r","e","t","e","n","t","i","o","n"," ","s","p","e","c","i","a","l","i","s","t"," ","w","i","t","h"," ","c","o","m","p","e","n","s","a","t","i","o","n"," ","a","u","t","h","o","r","i","t","y">>
FAST_TRACK_ACTION ==
    <<"F","a","s","t","-","t","r","a","c","k"," ","d","e","m","o"," ","s","c","h","e","d","u","l","i","n","g"," ","w","i","t","h"," ","s","e","n","i","o","r"," ","s","a","l","e","s"," ","r","e","p">>
SCHEDULE_DEMO ==
    <<"s","c","h","e","d","u","l","e"," ","d","e","m","o">>

---------------------------------------------------------------------------
(* Python primitives *)

IntV(n) == [kind |-> "int", n |-> n]
StrV(s) == [kind |-> "str", s |-> s]

\* dict.get(key, default)
Get(d, key, default) == IF key \in DOMAIN d THEN d[key] ELSE default

\* str.lower() on one character
LowerChar(c) ==
    CASE c = "A" -> "a" [] c = "B" -> "b" [] c = "C" -> "c" [] c = "D" -> "d"
      [] c = "E" -> "e" [] c = "F" -> "f" [] c = "G" -> "g" [] c = "H" -> "h"
      [] c = "I" -> "i" [] c = "J" -> "j" [] c = "K" -> "k" [] c = "L" -> "l"
      [] c = "M" -> "m" [] c = "N" -> "n" [] c = "O" -> "o" [] c = "P" -> "p"
      [] c = "Q" -> "q" [] c = "R" -> "r" [] c = "S" -> "s" [] c = "T" -> "t"
      [] c = "U" -> "u" [] c = "V" -> "v" [] c = "W" -> "w" [] c = "X" -> "x"
      [] c = "Y" -> "y" [] c = "Z" -> "z" [] OTHER -> c

\* str.lower()
Lower(s) == [i \in 1..Len(s) |-> LowerChar(s[i])]

\* `sub in s` for two str
Contains(s, sub) ==
    \E i \in 1..(Len(s) - Len(sub) + 1) : SubSeq(s, i, i + Len(sub) - 1) = sub

\* abs() on a number
Abs(x) == IF x < 0 THEN 0 - x ELSE x

\* min() and max() on two int
Min(a, b) == IF a < b THEN a ELSE b
Max(a, b) == IF a > b THEN a ELSE b

\* truthiness and len() of a dict or list
Size(c) == Cardinality(DOMAIN c)

\* None, and the truth value of an Optional[str]
PyNone == "<None>"
Truthy(s) == s # PyNone /\ s # ""


---------------------------------------------------------------------------
(* Inputs of evaluate: the values the two dicts are drawn from *)

ActionScheduleDemo ==
    <<"S","c","h","e","d","u","l","e"," ","d","e","m","o"," ","n","e","x","t"," ","T","u","e","s","d","a","y"," ","a","t"," ","3","p","m">>
ActionContactSupport ==
    <<"C","o","n","t","a","c","t"," ","s","u","p","p","o","r","t">>

EmptyDict == [k \in {} |-> 0]

Sentiments ==
    { EmptyDict,
      [compound |-> 50, sentiment_label |-> "positive"],
      [compound |-> 51, sentiment_label |-> "positive"],
      [compound |-> -85, sentiment_label |-> "negative"] }
KeywordDicts == { [c \in 1..n |-> <<"term">>] : n \in 0..MaxKeywords }
EntityLists == { [i \in 1..n |-> [text |-> "TechCorp", label |-> "ORG"]] : n \in 0..MaxEntities }

\* the dict holding only the keys of D
Restrict(d, D) == [k \in D |-> d[k]]

LlmOutputs ==
    LET
        Actions == {ActionScheduleDemo, ActionContactSupport}
        Priorities == {IntV(10), IntV(85), IntV(86), IntV(95), IntV(150), IntV(-5), StrV("80")}
        RiskLevels == {"low", "medium", "high", "N/A"}
        OpportunityLevels == {"low", "high", "N/A"}
        Reasonings == {"Strong buying signals"}
    IN
    { Restrict(full, D) :
        full \in [recommended_action : Actions, priority_score : Priorities,
                  risk_level : RiskLevels, opportunity_level : OpportunityLevels,
                  reasoning : Reasonings],
        D \in SUBSET {"recommended_action", "priority_score", "risk_level",
                      "opportunity_level", "reasoning"} }

NlpAnalyses ==
    LET
        Intents == {"churn_risk", "complaint", "demo_request", "pricing_inquiry"}
    IN
    { Restrict(full, D) :
        full \in [intent : Intents, sentiment : Sentiments,
                  keywords : KeywordDicts, entities : EntityLists],
        D \in SUBSET {"intent", "sentiment", "keywords", "entities"} }

NoDecision == [returned |-> FALSE]

---------------------------------------------------------------------------
(* ActionEngine.evaluate *)

\* Extract with the risk default of another service ("medium") in place of "low"
ExtractMediumDefault(nlp, llm) ==
    [ final_action        |-> Get(llm, "recommended_action", DEFAULT_ACTION),
      priority_score      |-> Get(llm, "priority_score", IntV(DEFAULT_PRIORITY)),
      risk_level          |-> Get(llm, "risk_level", "medium"),
      opportunity_level   |-> Get(llm, "opportunity_level", "low"),
      reasoning           |-> Get(llm, "reasoning", ""),
      intent              |-> Get(nlp, "intent", "general_inquiry"),
      sentiment           |-> Get(nlp, "sentiment", EmptyDict),
      keywords            |-> Get(nlp, "keywords", EmptyDict),
      entities            |-> Get(nlp, "entities", EmptyDict),
      escalation_required |-> FALSE,
      urgent_flag         |-> FALSE,
      revenue_opportunity |-> FALSE,
      rules_applied       |-> << >>,
      exc                 |-> "None" ]

\* lines 58-75: read the two dicts with their defaults, initialise the flags
Extract(nlp, llm) ==
    [ final_action        |-> Get(llm, "recommended_action", DEFAULT_ACTION),
      priority_score      |-> Get(llm, "priority_score", IntV(DEFAULT_PRIORITY)),
      risk_level          |-> Get(llm, "risk_level", "low"),
      opportunity_level   |-> Get(llm, "opportunity_level", "low"),
      reasoning           |-> Get(llm, "reasoning", ""),
      intent              |-> Get(nlp, "intent", "general_inquiry"),
      sentiment           |-> Get(nlp, "sentiment", EmptyDict),
      keywords            |-> Get(nlp, "keywords", EmptyDict),
      entities            |-> Get(nlp, "entities", EmptyDict),
      escalation_required |-> FALSE,
      urgent_flag         |-> FALSE,
      revenue_opportunity |-> FALSE,
      rules_applied       |-> << >>,
      exc                 |-> "None" ]

\* an exception leaves the function: no later statement runs
Raise(w, e) == [w EXCEPT !.exc = e]

\* RULE 1: High Risk = Automatic Escalation
Rule1(w) ==
    IF w.exc # "None" THEN w
    ELSE IF w.risk_level = "high"
    THEN [w EXCEPT !.final_action = ESCALATE_ACTION,
                   !.escalation_required = TRUE,
                   !.rules_applied = Append(@, [rule |-> "RULE_1"])]
    ELSE w

\* Rule2 assigning the floor instead of taking the maximum
Rule2AssignFloor(w) ==
    IF w.exc # "None" THEN w
    ELSE IF w.intent = "churn_risk"
    THEN IF w.priority_score.kind # "int"
         THEN Raise(w, "TypeError")
         ELSE [w EXCEPT !.priority_score = IntV(CHURN_MINIMUM_PRIORITY),
                        !.escalation_required = TRUE,
                        !.rules_applied =
                            Append(@, [rule |-> "RULE_2",
                                       from |-> w.priority_score.n,
                                       to   |-> CHURN_MINIMUM_PRIORITY])]
    ELSE w

\* Rule2 that leaves escalation_required alone
Rule2NoEscalation(w) ==
    IF w.exc # "None" THEN w
    ELSE IF w.intent = "churn_risk"
    THEN IF w.priority_score.kind # "int"
         THEN Raise(w, "TypeError")
         ELSE LET original_priority == w.priority_score.n
                  elevated == Max(original_priority, CHURN_MINIMUM_PRIORITY)
              IN  [w EXCEPT !.priority_score = IntV(elevated),
                            !.rules_applied =
                                Append(@, [rule |-> "RULE_2",
                                           from |-> original_priority,
                                           to   |-> elevated])]
    ELSE w

\* RULE 2: Churn Risk = Minimum Priority 90
Rule2(w) ==
    IF w.exc # "None" THEN w
    ELSE IF w.intent = "churn_risk"
    THEN IF w.priority_score.kind # "int"
         THEN Raise(w, "TypeError")     \* max(str, int)
         ELSE LET original_priority == w.priority_score.n
                  elevated == Max(original_priority, CHURN_MINIMUM_PRIORITY)
              IN  [w EXCEPT !.priority_score = IntV(elevated),
                            !.escalation_required = TRUE,
                            !.rules_applied =
                                Append(@, [rule |-> "RULE_2",
                                           from |-> original_priority,
                                           to   |-> elevated])]
    ELSE w

\* Rule3 that also raises the urgent flag
Rule3SetsUrgent(w) ==
    IF w.exc # "None" THEN w
    ELSE IF w.opportunity_level = "high" /\ w.risk_level = "low"
    THEN [w EXCEPT !.revenue_opportunity = TRUE,
                   !.urgent_flag = TRUE,
                   !.rules_applied = Append(@, [rule |-> "RULE_3"])]
    ELSE w

\* RULE 3: High Opportunity + Low Risk = Revenue Opportunity
Rule3(w) ==
    IF w.exc # "None" THEN w
    ELSE IF w.opportunity_level = "high" /\ w.risk_level = "low"
    THEN [w EXCEPT !.revenue_opportunity = TRUE,
                   !.rules_applied = Append(@, [rule |-> "RULE_3"])]
    ELSE w

\* Rule4 with a non-strict comparison
Rule4NonStrict(w) ==
    IF w.exc # "None" THEN w
    ELSE IF w.priority_score.kind # "int"
    THEN Raise(w, "TypeError")
    ELSE IF w.priority_score.n >= HIGH_PRIORITY_THRESHOLD
    THEN [w EXCEPT !.urgent_flag = TRUE,
                   !.rules_applied =
                       Append(@, [rule |-> "RULE_4",
                                  priority  |-> w.priority_score.n,
                                  threshold |-> HIGH_PRIORITY_THRESHOLD])]
    ELSE w

\* RULE 4: Priority > 85 = Urgent Flag
Rule4(w) ==
    IF w.exc # "None" THEN w
    ELSE IF w.priority_score.kind # "int"
    THEN Raise(w, "TypeError")          \* str > int
    ELSE IF w.priority_score.n > HIGH_PRIORITY_THRESHOLD
    THEN [w EXCEPT !.urgent_flag = TRUE,
                   !.rules_applied =
                       Append(@, [rule |-> "RULE_4",
                                  priority  |-> w.priority_score.n,
                                  threshold |-> HIGH_PRIORITY_THRESHOLD])]
    ELSE w

\* Rule5 without its audit entry
Rule5NoAudit(w) ==
    IF w.exc # "None" THEN w
    ELSE IF w.intent = "complaint" /\ w.risk_level = "high"
    THEN [w EXCEPT !.final_action = RETENTION_ACTION,
                   !.escalation_required = TRUE]
    ELSE w

\* RULE 5: Complaint + High Risk = Retention Team
Rule5(w) ==
    IF w.exc # "None" THEN w
    ELSE IF w.intent = "complaint" /\ w.risk_level = "high"
    THEN [w EXCEPT !.final_action = RETENTION_ACTION,
                   !.escalation_required = TRUE,
                   !.rules_applied = Append(@, [rule |-> "RULE_5"])]
    ELSE w

\* Rule6 testing the action text without lower()
Rule6CaseSensitive(w) ==
    IF w.exc # "None" THEN w
    ELSE IF w.intent = "demo_request" /\ w.opportunity_level = "high"
    THEN [w EXCEPT !.final_action =
                       IF ~Contains(@, SCHEDULE_DEMO)
                       THEN FAST_TRACK_ACTION ELSE @,
                   !.rules_applied = Append(@, [rule |-> "RULE_6"])]
    ELSE w

\* RULE 6: Demo Request + High Opportunity = Fast-track
Rule6(w) ==
    IF w.exc # "None" THEN w
    ELSE IF w.intent = "demo_request" /\ w.opportunity_level = "high"
    THEN [w EXCEPT !.final_action =
                       IF ~Contains(Lower(@), SCHEDULE_DEMO)
                       THEN FAST_TRACK_ACTION ELSE @,
                   !.rules_applied = Append(@, [rule |-> "RULE_6"])]
    ELSE w

\* the rules with rule 5 moved in front of rule 1
ApplyRulesRule5First(w) == Rule6(Rule4(Rule3(Rule2(Rule1(Rule5(w))))))

\* lines 81-120: the six rules, in program order
ApplyRules(w) == Rule6(Rule5(Rule4(Rule3(Rule2(Rule1(w))))))

\* _calculate_confidence with a non-strict sentiment threshold
CalculateConfidenceNonStrict(sentiment, keywords, entities) ==
    LET compound_score == Get(sentiment, "compound", DEFAULT_COMPOUND)
        c0 == BASE_CONFIDENCE
        c1 == IF Abs(compound_score) >= STRONG_SENTIMENT_THRESHOLD
              THEN c0 + SENTIMENT_BONUS ELSE c0
        c2 == IF Size(keywords) > 0 THEN c1 + KEYWORDS_BONUS ELSE c1
        c3 == IF Size(entities) > 0 THEN c2 + ENTITIES_BONUS ELSE c2
    IN  Min(c3, CONFIDENCE_CAP)

\* ActionEngine._calculate_confidence
CalculateConfidence(sentiment, keywords, entities) ==
    LET compound_score == Get(sentiment, "compound", DEFAULT_COMPOUND)
        c0 == BASE_CONFIDENCE
        c1 == IF Abs(compound_score) > STRONG_SENTIMENT_THRESHOLD
              THEN c0 + SENTIMENT_BONUS ELSE c0
        c2 == IF Size(keywords) > 0 THEN c1 + KEYWORDS_BONUS ELSE c1
        c3 == IF Size(entities) > 0 THEN c2 + ENTITIES_BONUS ELSE c2
    IN  Min(c3, CONFIDENCE_CAP)

\* lines 136-149: the dict evaluate returns
Assemble(w) ==
    [ returned            |-> TRUE,
      final_action        |-> w.final_action,
      priority_score      |-> w.priority_score,
      risk_level          |-> w.risk_level,
      opportunity_level   |-> w.opportunity_level,
      escalation_required |-> w.escalation_required,
      urgent_flag         |-> w.urgent_flag,
      revenue_opportunity |-> w.revenue_opportunity,
      confidence_score    |-> CalculateConfidence(w.sentiment, w.keywords, w.entities),
      reasoning           |-> w.reasoning,
      rules_applied       |-> w.rules_applied,
      intent              |-> w.intent,
      sentiment_label     |-> Get(w.sentiment, "sentiment_label", "neutral") ]

\* one call of evaluate: it returns a decision or an exception leaves it
Evaluate ==
    /\ pc = "called"
    /\ LET w == ApplyRules(Extract(nlp_analysis, llm_output))
       IN  IF w.exc # "None"
           THEN /\ pc' = "raised"
                /\ decision' = NoDecision
           ELSE /\ pc' = "returned"
                /\ decision' = Assemble(w)
    /\ UNCHANGED <<nlp_analysis, llm_output>>
    /\ UNCHANGED <<safetyVars, appVars, uploadVars, voiceVars>>

\* no call of validate_action_safety is under way
SafetyIdle ==
    /\ safety_action = << >>
    /\ safety_pc = "idle"
    /\ safety_result = NoDecision

\* no database and no HTTP request
AppIdle ==
    /\ calls_collection = << >>
    /\ now = 0
    /\ last = [handler |-> "none"]

\* no upload is in flight, the upload folder is empty, no voice session exists
ServicesIdle ==
    /\ upload_folder = << >>
    /\ requests = << >>
    /\ active_conversations = << >>

\* no call of evaluate is under way
EngineIdle ==
    /\ nlp_analysis = EmptyDict
    /\ llm_output = EmptyDict
    /\ pc = "idle"
    /\ decision = NoDecision

Init ==
    /\ nlp_analysis \in NlpAnalyses
    /\ llm_output \in LlmOutputs
    /\ pc = "called"
    /\ decision = NoDecision
    /\ SafetyIdle
    /\ AppIdle
    /\ ServicesIdle

Next == Evaluate

Spec == Init /\ [][Next]_vars

---------------------------------------------------------------------------
(* ActionEngine.validate_action_safety *)

MaxWords == 2       \* most words in an action text given to the validator

RISKY_KEYWORDS ==
    << <<"d","i","s","c","o","u","n","t">>,
       <<"r","e","f","u","n","d">>,
       <<"c","o","m","p","e","n","s","a","t","i","o","n">>,
       <<"f","r","e","e">>,
       <<"w","a","i","v","e">> >>
DOLLAR == <<"$">>
PERCENT == <<"%">>

\* the words action texts are made of
SafetyWords ==
    << <<"O","f","f","e","r">>,
       <<"2","0","%">>,
       <<"d","i","s","c","o","u","n","t">>,
       <<"R","e","f","u","n","d">>,
       <<"$","5","0">>,
       <<"F","R","E","E">>,
       <<"w","a","i","v","e">>,
       <<"c","o","m","p","e","n","s","a","t","i","o","n">>,
       <<"c","a","l","l">> >>

\* " ".join(words)
RECURSIVE Join(_)
Join(ws) ==
    IF Len(ws) = 0 THEN << >>
    ELSE IF Len(ws) = 1 THEN ws[1]
    ELSE ws[1] \o <<" ">> \o Join(Tail(ws))

\* the warning appended for a risky keyword, and the one for a monetary value
KeywordWarning(keyword) == [kind |-> "risky_keyword", keyword |-> keyword]
MonetaryWarning == [kind |-> "monetary"]

\* validate_action_safety matching the keywords against the text as given
ValidateActionSafetyCaseSensitive(action) ==
    LET Hit(keyword) == Contains(action, keyword)
        hits == SelectSeq(RISKY_KEYWORDS, Hit)
        keyword_warnings == [i \in DOMAIN hits |-> KeywordWarning(hits[i])]
        monetary == Contains(action, DOLLAR) \/ Contains(action, PERCENT)
    IN  [ returned      |-> TRUE,
          is_safe       |-> ~monetary,
          warnings      |-> IF monetary THEN Append(keyword_warnings, MonetaryWarning)
                            ELSE keyword_warnings,
          modifications |-> << >> ]

\* lines 211-233: the dict validate_action_safety returns for an action text
ValidateActionSafety(action) ==
    LET action_lower == Lower(action)
        Hit(keyword) == Contains(action_lower, keyword)
        hits == SelectSeq(RISKY_KEYWORDS, Hit)
        keyword_warnings == [i \in DOMAIN hits |-> KeywordWarning(hits[i])]
        monetary == Contains(action, DOLLAR) \/ Contains(action, PERCENT)
    IN  [ returned      |-> TRUE,
          is_safe       |-> ~monetary,
          warnings      |-> IF monetary THEN Append(keyword_warnings, MonetaryWarning)
                            ELSE keyword_warnings,
          modifications |-> << >> ]

\* one call of validate_action_safety
CallValidateActionSafety ==
    /\ safety_pc = "called"
    /\ safety_result' = ValidateActionSafety(safety_action)
    /\ safety_pc' = "returned"
    /\ UNCHANGED <<safety_action, engineVars, appVars, uploadVars, voiceVars>>

InitSafety ==
    LET
        SafetyActions ==
            { Join([i \in DOMAIN ix |-> SafetyWords[ix[i]]]) :
                ix \in UNION { [1..m -> 1..Len(SafetyWords)] : m \in 0..MaxWords } }
    IN
    /\ safety_action \in SafetyActions
    /\ safety_pc = "called"
    /\ safety_result = NoDecision
    /\ EngineIdle
    /\ AppIdle
    /\ ServicesIdle

NextSafety == CallValidateActionSafety

SpecSafety == InitSafety /\ [][NextSafety]_vars

---------------------------------------------------------------------------
(* The signal extractors: AINLPService (ai_nlp_service.py) and NLPService  *)
(* (nlp_service.py).  A decoded JSON value is tagged with its Python type; *)
(* a compound score is held in hundredths.  What the language model and    *)
(* VADER answer is an input.                                               *)

MaxNlpWords == 2    \* most words of a transcript given to an extractor

FloatV(h) == [kind |-> "float", n |-> h]
DictV(d) == [kind |-> "dict", d |-> d]
ListV(l) == [kind |-> "list", items |-> l]

COMPOUND_MIN == -100
COMPOUND_MAX == 100
AI_LABEL_THRESHOLD == 20
VADER_LABEL_THRESHOLD == 5

\* valid_intents of _normalize_analysis
VALID_INTENTS ==
    {"demo_request", "complaint", "pricing_inquiry", "cancellation",
     "information_request", "interest_declaration", "objection", "other"}

\* NLPService.keyword_dict
KEYWORD_DICT ==
    [ demo |->
        << <<"d","e","m","o">>,
           <<"d","e","m","o","n","s","t","r","a","t","i","o","n">>,
           <<"p","r","e","s","e","n","t","a","t","i","o","n">>,
           <<"w","a","l","k","t","h","r","o","u","g","h">>,
           <<"s","h","o","w"," ","m","e">> >>,
      pricing |->
        << <<"p","r","i","c","e">>,
           <<"c","o","s","t">>,
           <<"b","u","d","g","e","t">>,
           <<"f","e","e">>,
           <<"p","a","y","m","e","n","t">>,
           <<"h","o","w"," ","m","u","c","h">>,
           <<"e","x","p","e","n","s","i","v","e">>,
           <<"c","h","e","a","p">> >>,
      complaint |->
        << <<"i","s","s","u","e">>,
           <<"p","r","o","b","l","e","m">>,
           <<"n","o","t"," ","w","o","r","k","i","n","g">>,
           <<"b","r","o","k","e","n">>,
           <<"e","r","r","o","r">>,
           <<"b","u","g">>,
           <<"f","r","u","s","t","r","a","t","e","d">> >>,
      cancellation |->
        << <<"c","a","n","c","e","l">>,
           <<"t","e","r","m","i","n","a","t","e">>,
           <<"s","t","o","p">>,
           <<"d","i","s","c","o","n","t","i","n","u","e">>,
           <<"u","n","s","u","b","s","c","r","i","b","e">> >>,
      competitor |->
        << <<"c","o","m","p","e","t","i","t","o","r">>,
           <<"a","l","t","e","r","n","a","t","i","v","e">>,
           <<"o","t","h","e","r"," ","c","o","m","p","a","n","y">>,
           <<"v","e","r","s","u","s">>,
           <<"c","o","m","p","a","r","e">> >>,
      urgency |->
        << <<"u","r","g","e","n","t">>,
           <<"a","s","a","p">>,
           <<"i","m","m","e","d","i","a","t","e","l","y">>,
           <<"r","i","g","h","t"," ","n","o","w">>,
           <<"t","o","d","a","y">>,
           <<"e","m","e","r","g","e","n","c","y">> >>,
      interest |->
        << <<"i","n","t","e","r","e","s","t","e","d">>,
           <<"w","a","n","t"," ","t","o">>,
           <<"w","o","u","l","d"," ","l","i","k","e">>,
           <<"l","o","o","k","i","n","g"," ","f","o","r">>,
           <<"n","e","e","d">> >>,
      objection |->
        << <<"c","o","n","c","e","r","n","e","d">>,
           <<"w","o","r","r","i","e","d">>,
           <<"n","o","t"," ","s","u","r","e">>,
           <<"h","e","s","i","t","a","n","t">>,
           <<"d","o","u","b","t">> >>,
      timeline |->
        << <<"n","e","x","t"," ","w","e","e","k">>,
           <<"n","e","x","t"," ","m","o","n","t","h">>,
           <<"t","o","m","o","r","r","o","w">>,
           <<"s","o","o","n">>,
           <<"l","a","t","e","r">> >>,
      decision_maker |->
        << <<"m","a","n","a","g","e","r">>,
           <<"b","o","s","s">>,
           <<"t","e","a","m">>,
           <<"d","e","c","i","s","i","o","n">>,
           <<"a","p","p","r","o","v","a","l">> >> ]

\* any(word in text for word in words)
AnyIn(text, words) == \E i \in DOMAIN words : Contains(text, words[i])

\* the label of a compound under the +-0.2 rule of ai_nlp_service.py
LabelOf(compound) ==
    IF compound > AI_LABEL_THRESHOLD THEN "positive"
    ELSE IF compound < 0 - AI_LABEL_THRESHOLD THEN "negative"
    ELSE "neutral"

\* the body of _normalize_analysis, for a list of valid intents
NormalizeWith(analysis, transcript, valid_intents) ==
    LET
        SENTIMENT_LABELS == {"positive", "neutral", "negative"}
    IN
    LET sentiment0 == Get(analysis, "sentiment", DictV(EmptyDict))
        sentiment ==
            IF sentiment0.kind # "dict"
            THEN [ compound |-> FloatV(0), sentiment_label |-> "neutral",
                   explanation |-> "No sentiment detected" ]
            ELSE sentiment0.d
        compound0 == Get(sentiment, "compound", FloatV(0))
        compound1 == IF compound0.kind \notin {"int", "float"} THEN 0 ELSE compound0.n
        compound == Max(COMPOUND_MIN, Min(COMPOUND_MAX, compound1))
        label0 == Get(sentiment, "sentiment_label", "neutral")
        label == IF label0 \notin SENTIMENT_LABELS THEN LabelOf(compound) ELSE label0
        keywords0 == Get(analysis, "keywords", DictV(EmptyDict))
        keywords == IF keywords0.kind # "dict" THEN EmptyDict ELSE keywords0.d
        entities0 == Get(analysis, "entities", ListV(<< >>))
        entities == IF entities0.kind # "list" THEN << >> ELSE entities0.items
        intent0 == Get(analysis, "intent", "other")
        intent == IF intent0 \notin valid_intents THEN "other" ELSE intent0
    IN  [ sentiment |->
            [ compound |-> compound,
              sentiment_label |-> label,
              explanation |-> Get(sentiment, "explanation", ""),
              pos |-> IF compound > 0 THEN Max(0, compound) ELSE 0,
              neu |-> IF Abs(compound) < AI_LABEL_THRESHOLD THEN 100 ELSE 0,
              neg |-> IF compound < 0 THEN Abs(Min(0, compound)) ELSE 0 ],
          keywords |-> keywords,
          entities |-> entities,
          intent |-> intent ]

\* _normalize_analysis whose valid_intents also holds "churn_risk"
NormalizeAnalysisChurnIntent(analysis, transcript) ==
    NormalizeWith(analysis, transcript, VALID_INTENTS \cup {"churn_risk"})

\* AINLPService._normalize_analysis
NormalizeAnalysis(analysis, transcript) ==
    NormalizeWith(analysis, transcript, VALID_INTENTS)

\* AINLPService._fallback_analysis
FallbackAnalysis(transcript) ==
    LET
        \* the word lists of _fallback_analysis
        FALLBACK_DEMO == << <<"d","e","m","o">>,
                            <<"d","e","m","o","n","s","t","r","a","t","i","o","n">>,
                            <<"s","h","o","w"," ","m","e">> >>
        FALLBACK_PRICING == << <<"p","r","i","c","e">>,
                               <<"c","o","s","t">>,
                               <<"p","r","i","c","i","n","g">> >>
        FALLBACK_COMPLAINT == << <<"i","s","s","u","e">>,
                                 <<"p","r","o","b","l","e","m">>,
                                 <<"n","o","t"," ","w","o","r","k","i","n","g">> >>
        FALLBACK_CANCELLATION == << <<"c","a","n","c","e","l">>,
                                    <<"s","t","o","p">>,
                                    <<"t","e","r","m","i","n","a","t","e">> >>
        POSITIVE_WORDS ==
            << <<"g","o","o","d">>,
               <<"g","r","e","a","t">>,
               <<"e","x","c","e","l","l","e","n","t">>,
               <<"h","a","p","p","y">>,
               <<"i","n","t","e","r","e","s","t","e","d">>,
               <<"l","o","v","e">> >>
        NEGATIVE_WORDS ==
            << <<"b","a","d">>,
               <<"p","o","o","r">>,
               <<"t","e","r","r","i","b","l","e">>,
               <<"f","r","u","s","t","r","a","t","e","d">>,
               <<"a","n","g","r","y">>,
               <<"h","a","t","e">> >>
        \* sum(1 for word in words if word in text)
        CountIn(text, words) == Cardinality({ i \in DOMAIN words : Contains(text, words[i]) })
        \* num / den in hundredths
        Hundredths(num, den) ==
            IF num >= 0 THEN (100 * num) \div den ELSE 0 - ((100 * (0 - num)) \div den)
    IN
    LET text_lower == Lower(transcript)
        intent == IF AnyIn(text_lower, FALLBACK_DEMO) THEN "demo_request"
                  ELSE IF AnyIn(text_lower, FALLBACK_PRICING) THEN "pricing_inquiry"
                  ELSE IF AnyIn(text_lower, FALLBACK_COMPLAINT) THEN "complaint"
                  ELSE IF AnyIn(text_lower, FALLBACK_CANCELLATION) THEN "cancellation"
                  ELSE "other"
        pos_count == CountIn(text_lower, POSITIVE_WORDS)
        neg_count == CountIn(text_lower, NEGATIVE_WORDS)
        num == pos_count - neg_count
        den == Max(1, pos_count + neg_count + 1)
        compound == Hundredths(num, den)
        \* compound > 0.2 and compound < -0.2, on the exact quotient
        label == IF 100 * num > AI_LABEL_THRESHOLD * den THEN "positive"
                 ELSE IF 100 * num < (0 - AI_LABEL_THRESHOLD) * den THEN "negative"
                 ELSE "neutral"
    IN  [ sentiment |->
            [ compound |-> compound,
              sentiment_label |-> label,
              explanation |-> "Fallback analysis",
              pos |-> Max(0, compound),
              neu |-> 50,
              neg |-> Max(0, 0 - compound) ],
          keywords |-> EmptyDict,
          entities |-> << >>,
          intent |-> intent,
          segment_sentiments |-> << >> ]

\* f with the fields of g added
Merge(f, g) ==
    [k \in DOMAIN f \cup DOMAIN g |-> IF k \in DOMAIN g THEN g[k] ELSE f[k]]

\* AINLPService.analyze for a transcript without segments, given what the
\* chat completion does: it raises, or answers text that json.loads rejects,
\* or text that decodes to reply.value
AiAnalyze(transcript, reply) ==
    IF reply.outcome # "json" THEN FallbackAnalysis(transcript)
    ELSE IF reply.value.kind # "dict" THEN FallbackAnalysis(transcript)   \* no .get
    ELSE Merge(NormalizeAnalysis(reply.value.d, transcript), [segment_sentiments |-> << >>])

\* NLPService._classify_intent; the function ends without a return after the
\* competitor test, the rest of its body sits behind the return of
\* _extract_entities_regex
ClassifyIntent(keywords, sentiment) ==
    IF sentiment = "negative" /\ "cancellation" \in DOMAIN keywords THEN "churn_risk"
    ELSE IF "demo" \in DOMAIN keywords THEN "demo_request"
    ELSE IF "pricing" \in DOMAIN keywords THEN "pricing_inquiry"
    ELSE IF "complaint" \in DOMAIN keywords \/ (sentiment = "negative" /\ Size(keywords) > 0)
    THEN "complaint"
    ELSE IF "interest" \in DOMAIN keywords /\ sentiment = "positive" THEN "qualified_lead"
    ELSE IF "objection" \in DOMAIN keywords THEN "objection_handling"
    ELSE IF "competitor" \in DOMAIN keywords THEN "competitor_comparison"
    ELSE PyNone

\* NLPService.analyze for a transcript without segments and entities, given
\* the compound score VADER computes for it
NlpAnalyze(transcript, vader_compound) ==
    LET
        \* the words of a list found in the text, in the order of the list
        Matches(text, words) == SelectSeq(words, LAMBDA word : Contains(text, word))
    IN
    LET sentiment_label ==
            IF vader_compound >= VADER_LABEL_THRESHOLD THEN "positive"
            ELSE IF vader_compound <= 0 - VADER_LABEL_THRESHOLD THEN "negative"
            ELSE "neutral"
        transcript_lower == Lower(transcript)
        found == { c \in DOMAIN KEYWORD_DICT : Len(Matches(transcript_lower, KEYWORD_DICT[c])) > 0 }
        detected_keywords == [c \in found |-> Matches(transcript_lower, KEYWORD_DICT[c])]
    IN  [ sentiment |-> [compound |-> vader_compound, sentiment_label |-> sentiment_label],
          keywords |-> detected_keywords,
          entities |-> << >>,
          intent |-> ClassifyIntent(detected_keywords, sentiment_label),
          segment_sentiments |-> << >> ]

\* the inputs: transcripts, and the answers of the language model and VADER
NlpWords ==
    << <<"d","e","m","o">>,
       <<"p","r","i","c","e">>,
       <<"i","s","s","u","e">>,
       <<"C","a","n","c","e","l">>,
       <<"g","o","o","d">>,
       <<"b","a","d">>,
       <<"w","o","r","r","i","e","d">>,
       <<"h","e","l","l","o">> >>

\* one call of an extractor's analyze
AiAnalyzeCall ==
    /\ last.handler = "AINLPService.analyze" /\ last.pc = "called"
    /\ last' = Merge(last, [pc |-> "returned", result |-> AiAnalyze(last.transcript, last.reply)])
    /\ UNCHANGED <<calls_collection, now, engineVars, safetyVars, uploadVars, voiceVars>>

NlpAnalyzeCall ==
    /\ last.handler = "NLPService.analyze" /\ last.pc = "called"
    /\ last' = Merge(last, [pc |-> "returned",
                            result |-> NlpAnalyze(last.transcript, last.vader_compound)])
    /\ UNCHANGED <<calls_collection, now, engineVars, safetyVars, uploadVars, voiceVars>>

InitNlp ==
    LET
        Transcripts ==
            { Join([i \in DOMAIN ix |-> NlpWords[ix[i]]]) :
                ix \in UNION { [1..m -> 1..Len(NlpWords)] : m \in 0..MaxNlpWords } }
        AiReplies ==
            LET
                ReplyCompounds ==
                    { FloatV(-150), FloatV(-21), FloatV(-20), FloatV(0), FloatV(21), FloatV(90),
                      StrV("high") }
                ReplyLabels == {"positive", "neutral", "negative", "mixed"}
                ReplySentiments ==
                    { StrV("good") } \cup
                    { DictV(Restrict(full, D)) :
                        full \in [compound : ReplyCompounds, sentiment_label : ReplyLabels],
                        D \in SUBSET {"compound", "sentiment_label"} }
                ReplyIntents == {"demo_request", "cancellation", "objection", "churn_risk", "general_inquiry"}
                ReplyKeywords == { DictV([pricing |-> <<"cost">>]), StrV("none") }
                ReplyEntities == { ListV(<<[text |-> "TechCorp", label |-> "ORG"]>>) }
            IN
            { [outcome |-> "api_error"], [outcome |-> "not_json"],
              [outcome |-> "json", value |-> ListV(<< >>)] } \cup
            { [outcome |-> "json", value |-> DictV(Restrict(full, D))] :
                full \in [sentiment : ReplySentiments, intent : ReplyIntents,
                          keywords : ReplyKeywords, entities : ReplyEntities],
                D \in SUBSET {"sentiment", "intent", "keywords", "entities"} }
        VaderCompounds == {-60, -5, 0, 5, 60}
    IN
    /\ EngineIdle /\ SafetyIdle /\ ServicesIdle
    /\ calls_collection = << >>
    /\ now = 0
    /\ \/ \E transcript \in Transcripts, reply \in AiReplies :
             last = [ handler |-> "AINLPService.analyze", pc |-> "called",
                      transcript |-> transcript, reply |-> reply ]
       \/ \E transcript \in Transcripts, vader_compound \in VaderCompounds :
             last = [ handler |-> "NLPService.analyze", pc |-> "called",
                      transcript |-> transcript, vader_compound |-> vader_compound ]

NextNlp == AiAnalyzeCall \/ NlpAnalyzeCall

SpecNlp == InitNlp /\ [][NextNlp]_vars

---------------------------------------------------------------------------
(* LLMService.generate_intelligence                                        *)
(*                                                                         *)
(* The recommendation is the decoded reply of the chat completion: a dict  *)
(* whose priority_score is a tagged JSON value and whose other fields are  *)
(* strings.  A call returns [exc |-> "None", value |-> the object] or      *)
(* leaves with the exception exc.                                          *)

\* JSON null, decoded to None
NullV == [kind |-> "none"]

FALLBACK_PRIORITY == 50

REQUIRED_FIELDS ==
    << "call_summary_short", "call_summary_detailed", "risk_level",
       "opportunity_level", "recommended_action", "priority_score", "reasoning" >>

DIGITS == <<"0","1","2","3","4","5","6","7","8","9">>

\* int(text) succeeds: an optional sign and decimal digits
IsIntText(text) ==
    LET
        IsDigit(c) == \E i \in DOMAIN DIGITS : DIGITS[i] = c
    IN
    LET body == IF Len(text) > 0 /\ text[1] \in {"-", "+"} THEN Tail(text) ELSE text
    IN  Len(body) > 0 /\ \A i \in DOMAIN body : IsDigit(body[i])

RECURSIVE DigitsValue(_)
DigitsValue(body) ==
    LET
        DigitValue(c) == (CHOOSE i \in DOMAIN DIGITS : DIGITS[i] = c) - 1
    IN
    IF Len(body) = 0 THEN 0
    ELSE 10 * DigitsValue(SubSeq(body, 1, Len(body) - 1)) + DigitValue(body[Len(body)])

\* int(text)
IntOfText(text) ==
    IF text[1] = "-" THEN 0 - DigitsValue(Tail(text))
    ELSE IF text[1] = "+" THEN DigitsValue(Tail(text))
    ELSE DigitsValue(text)

\* _build_multilingual_prompt: the parts of the prompt that come from the bundle
BuildMultilingualPrompt(transcript, sentiment, intent, keywords, entities) ==
    LET
        \* f"{score:.2f}" of a score in hundredths
        Fixed2(score) ==
            LET a == Abs(score)
            IN  (IF score < 0 THEN <<"-">> ELSE << >>)
                \o << DIGITS[(a \div 100) + 1], ".", DIGITS[((a \div 10) % 10) + 1], DIGITS[(a % 10) + 1] >>
    IN
    [ transcript |-> transcript,
      sentiment_label |-> Get(sentiment, "sentiment_label", "neutral"),
      sentiment_score |-> Fixed2(Get(sentiment, "compound", 0)),
      intent |-> intent,
      keywords |-> IF keywords # EmptyDict THEN keywords ELSE "None detected",
      entities |-> IF entities # << >> THEN entities ELSE "None detected" ]

\* lines 114-116: every required field the reply lacks is set to "N/A"
FillRequired(intelligence) ==
    LET
        NOT_AVAILABLE == <<"N","/","A">>
    IN
    [ f \in DOMAIN intelligence \cup { REQUIRED_FIELDS[i] : i \in DOMAIN REQUIRED_FIELDS } |->
        IF f \in DOMAIN intelligence THEN intelligence[f]
        ELSE IF f = "priority_score" THEN StrV(NOT_AVAILABLE)
        ELSE "N/A" ]

\* lines 119-123: a priority_score that is a str is converted by int(), or
\* replaced by 50 when int() rejects it; any other value is left as it is
EnsurePriority(intelligence) ==
    LET p == intelligence["priority_score"]
    IN  IF p.kind = "str"
        THEN [ intelligence EXCEPT !["priority_score"] =
                 IF IsIntText(p.s) THEN IntV(IntOfText(p.s)) ELSE IntV(FALLBACK_PRIORITY) ]
        ELSE intelligence

\* what generate_intelligence returns when the LLM call fails
LlmError == [error |-> "LLM processing failed", details |-> "timeout"]

\* what it returns when json.loads rejects the reply
JsonError == [error |-> "JSON parsing failed", details |-> "Expecting value",
              raw_response |-> "not json"]

Returns(value) == [exc |-> "None", value |-> value]

\* generate_intelligence whose try has no `except Exception` branch
GenerateIntelligenceNoCatchAll(transcript, nlp, reply) ==
    IF reply.outcome = "api_error" THEN [exc |-> "APIError"]
    ELSE IF reply.outcome = "not_json" THEN Returns(JsonError)
    ELSE IF reply.value.kind # "dict" THEN [exc |-> "TypeError"]
    ELSE Returns(EnsurePriority(FillRequired(reply.value.d)))

\* LLMService.generate_intelligence, given what the chat completion does: it
\* raises, or answers text that json.loads rejects, or text that decodes to
\* reply.value
GenerateIntelligence(transcript, nlp, reply) ==
    LET
        \* what it returns when the reply decodes to something that is no dict
        \* (item assignment raises TypeError)
        NotDictError == [error |-> "LLM processing failed",
                         details |-> "object does not support item assignment"]
    IN
    IF reply.outcome = "api_error" THEN Returns(LlmError)
    ELSE IF reply.outcome = "not_json" THEN Returns(JsonError)
    ELSE IF reply.value.kind # "dict" THEN Returns(NotDictError)
    ELSE Returns(EnsurePriority(FillRequired(reply.value.d)))

\* one call of generate_intelligence
GenerateIntelligenceCall ==
    LET
        \* lines 66-76: the signals read from the bundle and the prompt built of them
        PromptOf(transcript, nlp) ==
            BuildMultilingualPrompt(transcript,
                                    Get(nlp, "sentiment", EmptyDict),
                                    Get(nlp, "intent", "unknown"),
                                    Get(nlp, "keywords", EmptyDict),
                                    Get(nlp, "entities", << >>))
    IN
    /\ last.handler = "LLMService.generate_intelligence" /\ last.pc = "called"
    /\ LET out == GenerateIntelligence(last.transcript, last.nlp_analysis, last.reply)
       IN  last' = Merge(Merge(last,
                           [pc |-> "returned",
                            prompt |-> PromptOf(last.transcript, last.nlp_analysis),
                            exc |-> out.exc]),
                     IF out.exc = "None" THEN [result |-> out.value] ELSE EmptyDict)
    /\ UNCHANGED <<calls_collection, now, engineVars, safetyVars, uploadVars, voiceVars>>

InitLlm ==
    LET
        \* the inputs: the bundles the extractors return, and the replies of the model
        LlmTranscripts == { Join(<<NlpWords[i]>>) : i \in DOMAIN NlpWords }
        LlmBundles ==
            { AiAnalyze(t, r) :
                t \in LlmTranscripts,
                r \in { [outcome |-> "api_error"],
                        [outcome |-> "json",
                         value |-> DictV([sentiment |-> DictV([compound |-> FloatV(-150),
                                                              sentiment_label |-> "negative"]),
                                          intent |-> "cancellation"])] } }
            \cup { NlpAnalyze(t, v) : t \in LlmTranscripts, v \in {-60, 0} }
        LlmPriorities ==
            { IntV(85), StrV(<<"8","5">>), StrV(<<"-","5">>), StrV(<<"h","i","g","h">>),
              StrV(<< >>), FloatV(7250), NullV }
        LlmReplies ==
            { [outcome |-> "api_error"], [outcome |-> "not_json"],
              [outcome |-> "json", value |-> ListV(<< >>)] } \cup
            { [outcome |-> "json", value |-> DictV(Restrict(full, D))] :
                full \in [call_summary_short : {"Customer asks to cancel"},
                          call_summary_detailed : {"Customer asks to cancel the plan"},
                          risk_level : {"high"}, opportunity_level : {"low"},
                          recommended_action : {"Call the customer back"},
                          priority_score : LlmPriorities,
                          reasoning : {"Churn signals"}],
                D \in SUBSET { REQUIRED_FIELDS[i] : i \in DOMAIN REQUIRED_FIELDS } }
    IN
    /\ EngineIdle /\ SafetyIdle /\ ServicesIdle
    /\ calls_collection = << >>
    /\ now = 0
    /\ \E i \in DOMAIN NlpWords, bundle \in LlmBundles, reply \in LlmReplies :
          last = [ handler |-> "LLMService.generate_intelligence", pc |-> "called",
                   transcript |-> NlpWords[i], nlp_analysis |-> bundle,
                   reply |-> reply ]

NextLlm == GenerateIntelligenceCall

SpecLlm == InitLlm /\ [][NextLlm]_vars

---------------------------------------------------------------------------
(* DatabaseService and the review handlers of app.py                       *)
(*                                                                         *)
(* calls_collection is the sequence of stored documents; the document at   *)
(* position i has _id ObjectIdV(i).  A document is a dict.  A call_id of a *)
(* request is the string [hex |-> i]: str(ObjectId) of document i, or      *)
(* [hex |-> 0] for a string that is no ObjectId.  Python None is PyNone.   *)
(* datetime.utcnow() is the tick counter now, which every write advances.  *)

MaxCalls == 2       \* most documents stored
MaxClock == 3       \* most writes to the collection

ObjectIdV(i) == [oid |-> i]
\* str(ObjectId)
StrOfObjectId(id) == [hex |-> id.oid]
\* ObjectId(call_id): raises InvalidId for a malformed string
IsValidObjectId(call_id) == call_id.hex > 0
ObjectIdOf(call_id) == [oid |-> call_id.hex]

CallIds == { [hex |-> i] : i \in 0..MaxCalls }

\* what a pipeline hands to store_call: the transcript, the signal bundle, the
\* recommendation and the decision evaluate returned for them
Payload(transcript, nlp, llm, filename) ==
    [ transcript     |-> transcript,
      nlp_analysis   |-> nlp,
      llm_output     |-> llm,
      final_decision |-> Assemble(ApplyRules(Extract(nlp, llm))),
      audio_filename |-> filename ]

\* two transcripts, and two replies of the language model to the extractor
CancelTranscript == NlpWords[4]
DemoTranscript == NlpWords[1]
ChurnReply ==
    [outcome |-> "json",
     value |-> DictV([sentiment |-> DictV([compound |-> FloatV(-85),
                                          sentiment_label |-> "negative"]),
                      intent |-> "churn_risk"])]
DemoReply ==
    [outcome |-> "json",
     value |-> DictV([sentiment |-> DictV([compound |-> FloatV(51),
                                          sentiment_label |-> "positive"]),
                      intent |-> "demo_request"])]

ChurnRecommendation ==
    [recommended_action |-> ActionContactSupport, priority_score |-> IntV(85),
     risk_level |-> "high", opportunity_level |-> "low",
     reasoning |-> "Strong buying signals"]
DemoRecommendation ==
    [recommended_action |-> ActionScheduleDemo, priority_score |-> IntV(95),
     risk_level |-> "low", opportunity_level |-> "high",
     reasoning |-> "Strong buying signals"]

DbPayloads ==
    LET
        \* the bundles AINLPService.analyze returns for them
        ChurnBundle == AiAnalyze(CancelTranscript, ChurnReply)
        DemoBundle == AiAnalyze(DemoTranscript, DemoReply)
    IN
    { Payload(CancelTranscript, ChurnBundle, ChurnRecommendation, "a.wav"),
      Payload(DemoTranscript, DemoBundle, DemoRecommendation, "b.wav") }

\* $set: the document with the fields of update_doc written over it
SetFields(doc, update_doc) ==
    [k \in DOMAIN doc \cup DOMAIN update_doc |->
        IF k \in DOMAIN update_doc THEN update_doc[k] ELSE doc[k]]

\* update_one without $set: the document is replaced by update_doc (its _id kept)
ReplaceFields(doc, update_doc) ==
    [k \in {"_id"} \cup DOMAIN update_doc |->
        IF k \in DOMAIN update_doc THEN update_doc[k] ELSE doc[k]]

\* collection.insert_one(document)
InsertOne(coll, document) ==
    Append(coll, SetFields(document, [_id |-> ObjectIdV(Len(coll) + 1)]))

\* collection.update_one({"_id": id}, {"$set": update_doc})
UpdateOneSet(coll, id, update_doc) ==
    [i \in DOMAIN coll |->
        IF coll[i]._id = id THEN SetFields(coll[i], update_doc) ELSE coll[i]]

\* result.modified_count of that update
ModifiedCount(coll, after) ==
    Cardinality({ i \in DOMAIN coll : coll[i] # after[i] })

\* lines 101-115: the document store_call inserts
CallDocument(payload, t) ==
    [ transcript             |-> payload.transcript,
      nlp_analysis           |-> payload.nlp_analysis,
      llm_output             |-> payload.llm_output,
      final_decision         |-> payload.final_decision,
      audio_filename         |-> payload.audio_filename,
      audio_data             |-> "bytes",
      transcription_segments |-> << >>,
      status                 |-> "pending",
      created_at             |-> t,
      updated_at             |-> t ]

\* lines 194-201: the update document of update_call_status
UpdateDoc(status, notes, t) ==
    IF Truthy(notes)
    THEN [status |-> status, updated_at |-> t, approval_notes |-> notes]
    ELSE [status |-> status, updated_at |-> t]

\* update_call_status whose update drops "$set"
UpdateCallStatusReplace(coll, call_id, status, notes, t) ==
    IF ~IsValidObjectId(call_id) THEN coll
    ELSE [i \in DOMAIN coll |->
            IF coll[i]._id = ObjectIdOf(call_id)
            THEN ReplaceFields(coll[i], UpdateDoc(status, notes, t)) ELSE coll[i]]

\* DatabaseService.update_call_status: the collection it leaves
UpdateCallStatus(coll, call_id, status, notes, t) ==
    IF ~IsValidObjectId(call_id) THEN coll      \* InvalidId is caught: return False
    ELSE UpdateOneSet(coll, ObjectIdOf(call_id), UpdateDoc(status, notes, t))

\* DatabaseService._serialize_call
SerializeCall(call) ==
    SetFields(call, [_id        |-> StrOfObjectId(call._id),
                     created_at |-> [isoformat |-> call.created_at],
                     updated_at |-> [isoformat |-> call.updated_at]])

\* DatabaseService.get_call / get_call_by_id finds a document (else: None)
CallFound(coll, call_id) ==
    IsValidObjectId(call_id) /\ \E i \in DOMAIN coll : coll[i]._id = ObjectIdOf(call_id)

\* the serialized document get_call returns when it finds one
GetCall(coll, call_id) ==
    SerializeCall(coll[CHOOSE i \in DOMAIN coll : coll[i]._id = ObjectIdOf(call_id)])

\* find(query) of get_all_calls: the positions of the matching documents
Find(coll, status_filter) ==
    IF Truthy(status_filter)
    THEN { i \in DOMAIN coll : coll[i].status = status_filter }
    ELSE DOMAIN coll

\* the orders in which the elements of S can be listed
Orders(S) ==
    { o \in [1..Cardinality(S) -> S] : \A i, j \in 1..Cardinality(S) : i # j => o[i] # o[j] }

SortKey(coll, i) == coll[i].final_decision.priority_score.n

\* sort(..., ASCENDING)
SortAscending(coll, S) ==
    { o \in Orders(S) :
        \A i, j \in DOMAIN o : i < j => SortKey(coll, o[i]) <= SortKey(coll, o[j]) }

\* sort("final_decision.priority_score", DESCENDING): any order of the
\* documents with non-increasing keys (the order of equal keys is not fixed)
SortDescending(coll, S) ==
    { o \in Orders(S) :
        \A i, j \in DOMAIN o : i < j => SortKey(coll, o[i]) >= SortKey(coll, o[j]) }

\* cursor.skip(n) and cursor.limit(n); a limit of 0 is no limit
Skip(seq, n) == SubSeq(seq, n + 1, Len(seq))
Limit(seq, n) == IF n = 0 THEN seq ELSE SubSeq(seq, 1, Min(n, Len(seq)))

\* DatabaseService.get_all_calls: the lists it can return
GetAllCalls(coll, limit, skip, status_filter) ==
    { [k \in DOMAIN window |-> SerializeCall(coll[window[k]])] :
        window \in { Limit(Skip(o, skip), limit) :
                        o \in SortDescending(coll, Find(coll, status_filter)) } }

\* DatabaseService.store_call, called with the keyword arguments it declares
DbStoreCall ==
    /\ Len(calls_collection) < MaxCalls
    /\ now < MaxClock
    /\ \E payload \in DbPayloads :
          /\ calls_collection' = InsertOne(calls_collection, CallDocument(payload, now + 1))
          /\ last' = [handler |-> "store_call",
                      call_id |-> StrOfObjectId(ObjectIdV(Len(calls_collection) + 1))]
    /\ now' = now + 1
    /\ UNCHANGED <<engineVars, safetyVars, uploadVars, voiceVars>>

\* POST /approve-action/{call_id} and POST /reject-action/{call_id}
ReviewAction(handler, status) ==
    LET
        NotesValues == {PyNone, "checked"}
    IN
    /\ now < MaxClock
    /\ \E call_id \in CallIds, notes \in NotesValues :
          LET after == UpdateCallStatus(calls_collection, call_id, status, notes, now + 1)
              success == ModifiedCount(calls_collection, after) > 0
          IN  /\ calls_collection' = after
              /\ now' = IF success THEN now + 1 ELSE now
              /\ last' = [handler |-> handler, call_id |-> call_id,
                          code |-> IF success THEN 200 ELSE 404]
    /\ UNCHANGED <<engineVars, safetyVars, uploadVars, voiceVars>>

ApproveAction == ReviewAction("approve_action", "approved")
RejectAction == ReviewAction("reject_action", "rejected")

\* POST /send-email: the $push is filtered by the serialized (string) _id
SendEmail ==
    /\ \E call_id \in CallIds, sent \in BOOLEAN :
          IF ~CallFound(calls_collection, call_id)
          THEN /\ last' = [handler |-> "send_email", call_id |-> call_id, code |-> 404]
               /\ UNCHANGED calls_collection
          ELSE IF ~sent
          THEN /\ last' = [handler |-> "send_email", call_id |-> call_id, code |-> 500]
               /\ UNCHANGED calls_collection
          ELSE LET call_data == GetCall(calls_collection, call_id)
                   email == [recipient |-> "ops@example.com", status |-> "sent"]
               IN  /\ calls_collection' =
                         [i \in DOMAIN calls_collection |->
                            IF calls_collection[i]._id = call_data._id
                            THEN SetFields(calls_collection[i],
                                   [emails_sent |->
                                      Append(Get(calls_collection[i], "emails_sent", << >>), email)])
                            ELSE calls_collection[i]]
                   /\ last' = [handler |-> "send_email", call_id |-> call_id, code |-> 200]
    /\ UNCHANGED <<now, engineVars, safetyVars, uploadVars, voiceVars>>

\* one call of DatabaseService.get_all_calls
DbGetAllCalls ==
    LET
        Limits == {0, 1, 100}
        Skips == {0, 1}
        StatusFilters == {PyNone, "", "pending", "approved"}
    IN
    /\ \E limit \in Limits, skip \in Skips, status_filter \in StatusFilters :
          \E calls \in GetAllCalls(calls_collection, limit, skip, status_filter) :
              last' = [handler |-> "get_all_calls", limit |-> limit, skip |-> skip,
                       status_filter |-> status_filter, calls |-> calls]
    /\ UNCHANGED <<calls_collection, now, engineVars, safetyVars, uploadVars, voiceVars>>

InitDb == EngineIdle /\ SafetyIdle /\ AppIdle /\ ServicesIdle

NextDb == DbStoreCall \/ ApproveAction \/ RejectAction \/ SendEmail \/ DbGetAllCalls

SpecDb == InitDb /\ [][NextDb]_vars

---------------------------------------------------------------------------
(* ReminderScheduler of reminder_scheduler.py                              *)
(*                                                                         *)
(* In this specification now counts the hours that have passed; a call is  *)
(* stored at the current hour, the scheduler sleeps, and each check runs   *)
(* send_reminders on the collection as it is.                              *)

MaxHours == 25           \* most hours that pass

URGENT_HOURS == 2
HIGH_HOURS == 6
MEDIUM_HOURS == 24
LOW_HOURS == 48
DEFAULT_REMINDER_HOURS == 24

REMINDER_SCHEDULE ==
    [urgent |-> URGENT_HOURS, high |-> HIGH_HOURS, medium |-> MEDIUM_HOURS, low |-> LOW_HOURS]

\* lines 47-50: the reminder threshold of a call
ReminderHours(call) ==
    LET priority == Get(Get(call, "final_decision", EmptyDict), "priority_level", "medium")
    IN  Get(REMINDER_SCHEDULE, priority, DEFAULT_REMINDER_HOURS)

\* get_pending_calls_needing_reminder.  For every call the query returns,
\* line 53 hands call.get("created_at") to datetime.fromisoformat; the value
\* is the datetime object store_call wrote (database_service.py line 110),
\* which fromisoformat rejects with TypeError, so the loop leaves at its
\* first call and lines 55-69 never run
GetPendingCallsNeedingReminder(coll, current_time) ==
    LET \* calls_collection.find({"approval_status": "pending_approval"})
        pending_calls ==
            { i \in DOMAIN coll : Get(coll[i], "approval_status", PyNone) = "pending_approval" }
    IN  IF pending_calls = {} THEN [exc |-> "None", calls |-> {}]
        ELSE [exc |-> "TypeError", calls |-> {}]

RECURSIVE PushReminders(_, _, _)
PushReminders(coll, S, t) ==
    LET \* update_one({"_id": ...}, {"$push": {"reminders_sent": {...}}})
        PushReminder(i) ==
            [ coll EXCEPT ![i] =
                SetFields(coll[i],
                          [reminders_sent |->
                             Append(Get(coll[i], "reminders_sent", << >>),
                                    [sent_at |-> t, type |-> "follow_up"])]) ]
    IN  IF S = {} THEN coll
        ELSE LET k == CHOOSE j \in S : TRUE
             IN  PushReminders(PushReminder(k), S \ {k}, t)

\* store_call at the current hour
StoreCallAtHour ==
    /\ Len(calls_collection) < MaxCalls
    /\ \E payload \in DbPayloads :
          /\ calls_collection' = InsertOne(calls_collection, CallDocument(payload, now))
          /\ last' = [handler |-> "store_call",
                      call_id |-> StrOfObjectId(ObjectIdV(Len(calls_collection) + 1))]
    /\ UNCHANGED <<now, engineVars, safetyVars, uploadVars, voiceVars>>

\* time.sleep between two checks
Sleep ==
    /\ now < MaxHours
    /\ now' = now + 1
    /\ last' = [handler |-> "sleep"]
    /\ UNCHANGED <<calls_collection, engineVars, safetyVars, uploadVars, voiceVars>>

\* send_reminders: one email per selected call, logged in the document when
\* the email service reports success; an exception of the selection is
\* caught and logged
SendReminders ==
    /\ LET found == GetPendingCallsNeedingReminder(calls_collection, now)
       IN  \E delivered \in SUBSET found.calls :
              /\ calls_collection' = PushReminders(calls_collection, delivered, now)
              /\ last' = [handler |-> "send_reminders", current_time |-> now,
                          exc |-> found.exc, emailed |-> found.calls]
    /\ UNCHANGED <<now, engineVars, safetyVars, uploadVars, voiceVars>>

InitScheduler == EngineIdle /\ SafetyIdle /\ AppIdle /\ ServicesIdle

NextScheduler == StoreCallAtHour \/ Sleep \/ SendReminders

SpecScheduler == InitScheduler /\ [][NextScheduler]_vars

---------------------------------------------------------------------------
(* The pipeline entry points: process_call and batch_process_calls of      *)
(* app.py, save_call of voice_api.py.  An audio is one upload together     *)
(* with what the services answer for it: the stage that raises for it (or  *)
(* "none"), its transcript, the reply of the language model to the         *)
(* extractor, and the object generate_intelligence returns for it.         *)

MaxFiles == 2            \* most files of one batch request
MAX_BATCH_FILES == 10

ALLOWED_EXTENSIONS == {".wav", ".mp3", ".m4a", ".ogg", ".flac"}

\* the parameters DatabaseService.store_call declares (it takes no **kwargs)
STORE_CALL_PARAMS ==
    {"transcript", "nlp_analysis", "llm_output", "final_decision",
     "audio_filename", "audio_data", "transcription_segments"}

\* the methods DatabaseService defines
DATABASE_SERVICE_METHODS ==
    {"connect", "disconnect", "_serialize_call", "store_call", "get_call",
     "get_call_by_id", "get_all_calls", "update_call_status",
     "get_dashboard_metrics", "search_calls", "get_audio_data"}

\* "error" in llm_output
IsErrorObject(llm) == "error" \in DOMAIN llm

NoCallId == [hex |-> 0]

Audio(filename, suffix, raises, nlp_reply, llm) ==
    [ filename |-> filename, suffix |-> suffix, raises |-> raises,
      transcript |-> CancelTranscript, nlp_reply |-> nlp_reply, llm_output |-> llm ]

Audios ==
    LET
        \* the stages that can raise; AINLPService.analyze catches what it raises
        RaisingStages == {"transcribe", "rag", "store"}
    IN
    { Audio("a.wav", ".wav", r, ChurnReply, ChurnRecommendation) :
        r \in RaisingStages \cup {"none"} }
    \cup { Audio("a.wav", ".wav", "none", ChurnReply, LlmError),
           Audio("a.wav", ".wav", "none", [outcome |-> "api_error"], ChurnRecommendation),
           Audio("c.txt", ".txt", "none", ChurnReply, ChurnRecommendation),
           [ filename |-> "b.wav", suffix |-> ".wav", raises |-> "none",
             transcript |-> DemoTranscript, nlp_reply |-> DemoReply,
             llm_output |-> DemoRecommendation ] }

\* nlp_service.analyze(transcript, ...) of a pipeline, nlp_service being the
\* AINLPService
AnalysisOf(audio) == AiAnalyze(audio.transcript, audio.nlp_reply)

\* a call db_service.store_call(**kwargs) at time t: the exception it raises
\* ("None" when it returns), the collection it leaves and the id it returns
StoreCall(coll, kwargs, fails, t) ==
    IF ~(DOMAIN kwargs \subseteq STORE_CALL_PARAMS)
    THEN [exc |-> "TypeError", coll |-> coll, call_id |-> NoCallId]
    ELSE IF fails
    THEN [exc |-> "PyMongoError", coll |-> coll, call_id |-> NoCallId]
    ELSE [exc |-> "None", coll |-> InsertOne(coll, CallDocument(kwargs, t)),
          call_id |-> StrOfObjectId(ObjectIdV(Len(coll) + 1))]

\* the keyword arguments both app.py pipelines pass to store_call
StoreKwargs(audio, final_decision) ==
    [ transcript             |-> audio.transcript,
      nlp_analysis           |-> AnalysisOf(audio),
      llm_output             |-> audio.llm_output,
      final_decision         |-> final_decision,
      audio_filename         |-> audio.filename,
      audio_data             |-> "bytes",
      transcription_segments |-> << >> ]

\* process_call passes the detected language as well
LanguageKwargs == [language |-> "en", language_name |-> "English"]

\* what one run of a pipeline did: the response code, whether
\* generate_intelligence returned, whether evaluate was called (with
\* audio.llm_output), whether a record was inserted, and the collection left
Outcome(code, generated, evaluated, stored, coll, call_id) ==
    [ code |-> code, generated |-> generated, evaluated |-> evaluated,
      stored |-> stored, coll |-> coll, call_id |-> call_id ]

\* the stages of a pipeline, in the order of the code
PIPELINE_STAGES == <<"transcribe", "analyze", "rag", "generate", "evaluate", "store">>

\* an outcome together with the stages that were started, the first n, and
\* the decision evaluate returned
Ran(out, n, final_decision) ==
    Merge(out, [stages |-> SubSeq(PIPELINE_STAGES, 1, n), final_decision |-> final_decision])

\* process_call that hands whatever generate_intelligence returned to evaluate
RunProcessCallNoErrorCheck(coll, audio, t) ==
    IF audio.suffix \notin ALLOWED_EXTENSIONS
    THEN Ran(Outcome(400, FALSE, FALSE, FALSE, coll, NoCallId), 0, NoDecision)
    ELSE IF audio.raises = "transcribe"
    THEN Ran(Outcome(500, FALSE, FALSE, FALSE, coll, NoCallId), 1, NoDecision)
    ELSE IF audio.raises = "rag"
    THEN Ran(Outcome(500, FALSE, FALSE, FALSE, coll, NoCallId), 3, NoDecision)
    ELSE LET w == ApplyRules(Extract(AnalysisOf(audio), audio.llm_output))
             stored == StoreCall(coll, Merge(StoreKwargs(audio, Assemble(w)), LanguageKwargs),
                                 audio.raises = "store", t)
         IN  IF w.exc # "None"
             THEN Ran(Outcome(500, TRUE, TRUE, FALSE, coll, NoCallId), 5, NoDecision)
             ELSE IF stored.exc # "None"
             THEN Ran(Outcome(500, TRUE, TRUE, FALSE, coll, NoCallId), 6, Assemble(w))
             ELSE Ran(Outcome(200, TRUE, TRUE, TRUE, stored.coll, stored.call_id), 6,
                      Assemble(w))

\* POST /process-call for one audio at time t
RunProcessCall(coll, audio, t) ==
    IF audio.suffix \notin ALLOWED_EXTENSIONS
    THEN Ran(Outcome(400, FALSE, FALSE, FALSE, coll, NoCallId), 0, NoDecision)
    ELSE IF audio.raises = "transcribe"
    THEN Ran(Outcome(500, FALSE, FALSE, FALSE, coll, NoCallId), 1, NoDecision)
    ELSE IF audio.raises = "rag"
    THEN Ran(Outcome(500, FALSE, FALSE, FALSE, coll, NoCallId), 3, NoDecision)
    ELSE IF IsErrorObject(audio.llm_output)
    THEN Ran(Outcome(500, TRUE, FALSE, FALSE, coll, NoCallId), 4, NoDecision)
    ELSE LET w == ApplyRules(Extract(AnalysisOf(audio), audio.llm_output))
             stored == StoreCall(coll, Merge(StoreKwargs(audio, Assemble(w)), LanguageKwargs),
                                 audio.raises = "store", t)
         IN  IF w.exc # "None"
             THEN Ran(Outcome(500, TRUE, TRUE, FALSE, coll, NoCallId), 5, NoDecision)
             ELSE IF stored.exc # "None"
             THEN Ran(Outcome(500, TRUE, TRUE, FALSE, coll, NoCallId), 6, Assemble(w))
             ELSE Ran(Outcome(200, TRUE, TRUE, TRUE, stored.coll, stored.call_id), 6,
                      Assemble(w))

\* one iteration of the loop of batch_process_calls; code 200 stands for a
\* "success" result and 500 for an "error" result
RunBatchFile(coll, audio, t) ==
    IF audio.suffix \notin ALLOWED_EXTENSIONS
    THEN Ran(Outcome(500, FALSE, FALSE, FALSE, coll, NoCallId), 0, NoDecision)
    ELSE IF audio.raises = "transcribe"
    THEN Ran(Outcome(500, FALSE, FALSE, FALSE, coll, NoCallId), 1, NoDecision)
    ELSE IF audio.raises = "rag"
    THEN Ran(Outcome(500, FALSE, FALSE, FALSE, coll, NoCallId), 3, NoDecision)
    ELSE LET w == ApplyRules(Extract(AnalysisOf(audio), audio.llm_output))
             stored == StoreCall(coll, StoreKwargs(audio, Assemble(w)),
                                 audio.raises = "store", t)
         IN  IF w.exc # "None"
             THEN Ran(Outcome(500, TRUE, TRUE, FALSE, coll, NoCallId), 5, NoDecision)
             ELSE IF stored.exc # "None"
             THEN Ran(Outcome(500, TRUE, TRUE, FALSE, coll, NoCallId), 6, Assemble(w))
             ELSE Ran(Outcome(200, TRUE, TRUE, TRUE, stored.coll, stored.call_id), 6,
                      Assemble(w))

\* the entry of results for one file
BatchResult(audio, out) ==
    IF out.code = 200
    THEN [ filename |-> audio.filename, status |-> "success", call_id |-> out.call_id,
           priority_score |-> out.coll[Len(out.coll)].final_decision.priority_score,
           risk_level |-> Get(audio.llm_output, "risk_level", PyNone) ]
    ELSE [ filename |-> audio.filename, status |-> "error" ]

\* the loop over files: the outcomes of the files from position k on, each
\* run on the collection the one before it left
RECURSIVE BatchLoop(_, _, _, _)
BatchLoop(files, k, coll, t) ==
    IF k > Len(files) THEN << >>
    ELSE LET out == RunBatchFile(coll, files[k], t + 1)
         IN  <<out>> \o BatchLoop(files, k + 1, out.coll, IF out.stored THEN t + 1 ELSE t)

SuccessCount(results) ==
    Cardinality({ k \in DOMAIN results : results[k].status = "success" })

\* POST /process-call
ProcessCall ==
    /\ Len(calls_collection) < MaxCalls
    /\ \E audio \in Audios :
          \E out \in {RunProcessCall(calls_collection, audio, now + 1)} :
              /\ calls_collection' = out.coll
              /\ now' = IF out.stored THEN now + 1 ELSE now
              /\ last' = [ handler |-> "process_call", audio |-> audio, code |-> out.code,
                           generated |-> out.generated, evaluated |-> out.evaluated,
                           stored |-> out.stored, call_id |-> out.call_id,
                           stages |-> out.stages, final_decision |-> out.final_decision ]
    /\ UNCHANGED <<engineVars, safetyVars, uploadVars, voiceVars>>

\* POST /calls/batch
BatchProcessCalls ==
    /\ \E n \in 0..MaxFiles : \E files \in [1..n -> Audios] :
          /\ Len(calls_collection) + n <= MaxCalls
          /\ IF Len(files) = 0 \/ Len(files) > MAX_BATCH_FILES
             THEN /\ last' = [ handler |-> "batch_process_calls", files |-> files,
                               code |-> 400 ]
                  /\ UNCHANGED <<calls_collection, now>>
             ELSE \E outs \in {BatchLoop(files, 1, calls_collection, now)} :
                  \E results \in {[k \in DOMAIN files |-> BatchResult(files[k], outs[k])]} :
                  LET success_count == SuccessCount(results)
                  IN  /\ calls_collection' = outs[Len(outs)].coll
                      /\ now' = now + Cardinality({ k \in DOMAIN outs : outs[k].stored })
                      /\ last' = [ handler |-> "batch_process_calls", files |-> files,
                                   code |-> 200,
                                   total_files |-> Len(files),
                                   successful |-> success_count,
                                   failed |-> Len(results) - success_count,
                                   results |-> results,
                                   trace |-> [k \in DOMAIN outs |->
                                                [ generated |-> outs[k].generated,
                                                  evaluated |-> outs[k].evaluated,
                                                  stored |-> outs[k].stored,
                                                  stages |-> outs[k].stages,
                                                  final_decision |->
                                                      outs[k].final_decision ]] ]
    /\ UNCHANGED <<engineVars, safetyVars, uploadVars, voiceVars>>

\* voice POST /save-call: the request carries the transcript of the audio
SaveCall ==
    /\ \E audio \in Audios :
          LET w == ApplyRules(Extract(AnalysisOf(audio), audio.llm_output))
              saved == "save_call" \in DATABASE_SERVICE_METHODS /\ w.exc = "None"
          IN  last' = [ handler |-> "save_call", audio |-> audio,
                        code |-> IF saved THEN 200 ELSE 500,
                        generated |-> TRUE, evaluated |-> TRUE,
                        stored |-> saved, call_id |-> NoCallId ]
    /\ UNCHANGED <<calls_collection, now, engineVars, safetyVars, uploadVars, voiceVars>>

InitPipeline == EngineIdle /\ SafetyIdle /\ AppIdle /\ ServicesIdle

NextPipeline == ProcessCall \/ BatchProcessCalls \/ SaveCall

SpecPipeline == InitPipeline /\ [][NextPipeline]_vars

---------------------------------------------------------------------------
(* Concurrent uploads: the temporary audio files of process_call,          *)
(* batch_process_calls and transcribe_audio of app.py                      *)
(*                                                                         *)
(* The handlers are coroutines of the one event loop uvicorn.run starts:   *)
(* a handler that has been resumed runs until its next await, and only     *)
(* there another request can run.  requests holds the requests in flight,  *)
(* each with the segment of its code it will run next; upload_folder maps  *)
(* the name of every file in UPLOAD_FOLDER to the request that wrote it.   *)
(* In this specification now counts the requests that have arrived, and    *)
(* the number of a request is its rank of arrival.                         *)

MaxRequests == 3         \* most requests that arrive

UploadHandlers == {"process_call", "batch_process_calls", "transcribe_audio"}

NoRequest == 0

\* process_call and the loop body of batch_process_calls that await between
\* writing the temporary file and transcribing it
SegmentsAwaitTranscribe(handler) ==
    IF handler = "transcribe_audio"
    THEN << <<"write", "transcribe", "finally_unlink">> >>
    ELSE << <<"validate">>, <<"write">>, <<"transcribe", "unlink">> >>

\* the statements of a handler that touch UPLOAD_FOLDER, cut at its awaits:
\* process_call and the loop body of batch_process_calls await file.read()
\* and then write, transcribe and unlink without an await; transcribe_audio
\* has no await at all
Segments(handler) ==
    IF handler = "transcribe_audio"
    THEN << <<"write", "transcribe", "finally_unlink">> >>
    ELSE << <<"validate">>, <<"write", "transcribe", "unlink">> >>

\* the folder without the file
Unlinked(folder, filename) ==
    IF DOMAIN folder \ {filename} = {} THEN << >>
    ELSE Restrict(folder, DOMAIN folder \ {filename})

\* one statement of request req on the folder; ok tells whether Whisper
\* transcribes the audio.  st holds the folder, whether an exception is
\* propagating, and whose file the request overwrote, read and deleted
ApplyOp(op, st, req, ok) ==
    LET fn == req.filename
        exists == fn \in DOMAIN st.folder
    IN  IF op = "finally_unlink"
        THEN IF exists
             THEN [st EXCEPT !.folder = Unlinked(st.folder, fn), !.deleted = st.folder[fn]]
             ELSE st
        ELSE IF st.failed THEN st
        ELSE IF op = "write"
        THEN [st EXCEPT !.folder = Merge(st.folder, [f \in {fn} |-> req.id]),
                        !.overwrote = IF exists THEN st.folder[fn] ELSE NoRequest]
        ELSE IF op = "transcribe"
        THEN IF ~exists THEN [st EXCEPT !.failed = TRUE]
             ELSE [st EXCEPT !.read = st.folder[fn], !.failed = ~ok]
        ELSE IF op = "unlink"
        THEN IF ~exists THEN [st EXCEPT !.failed = TRUE]
             ELSE [st EXCEPT !.folder = Unlinked(st.folder, fn), !.deleted = st.folder[fn]]
        ELSE st

\* the statements of one segment, in order
RECURSIVE RunOps(_, _, _, _)
RunOps(ops, st, req, ok) ==
    IF ops = << >> THEN st
    ELSE RunOps(Tail(ops), ApplyOp(Head(ops), st, req, ok), req, ok)

\* a request arrives and its handler is scheduled
Arrive ==
    LET
        Filenames == {"a.wav", "b.wav"}
    IN
    /\ now < MaxRequests
    /\ \E handler \in UploadHandlers, filename \in Filenames :
          /\ requests' = Append(requests, [ id |-> now + 1, handler |-> handler,
                                            filename |-> filename, seg |-> 1 ])
          /\ last' = [handler |-> "arrive", request |-> now + 1]
    /\ now' = now + 1
    /\ UNCHANGED <<upload_folder, calls_collection, engineVars, safetyVars, voiceVars>>

\* the event loop resumes a request, which runs its next segment; a request
\* that fails, or has run its last segment, answers and is gone
Resume ==
    LET
        \* the sequence without its element at position i
        Without(seq, i) == SubSeq(seq, 1, i - 1) \o SubSeq(seq, i + 1, Len(seq))
    IN
    \E i \in DOMAIN requests, ok \in BOOLEAN :
       LET req == requests[i]
           segments == Segments(req.handler)
       IN  \E st \in { RunOps(segments[req.seg],
                              [ folder |-> upload_folder, failed |-> FALSE,
                                overwrote |-> NoRequest, read |-> NoRequest,
                                deleted |-> NoRequest ],
                              req, ok) } :
             /\ upload_folder' = st.folder
             /\ requests' = IF st.failed \/ req.seg = Len(segments)
                            THEN Without(requests, i)
                            ELSE [requests EXCEPT ![i].seg = req.seg + 1]
             /\ last' = [ handler |-> req.handler, request |-> req.id,
                          filename |-> req.filename, failed |-> st.failed,
                          overwrote |-> st.overwrote, read |-> st.read,
                          deleted |-> st.deleted,
                          others |-> { requests[j].id : j \in DOMAIN requests \ {i} } ]
             /\ UNCHANGED <<now, calls_collection, engineVars, safetyVars, voiceVars>>

InitUploads == EngineIdle /\ SafetyIdle /\ AppIdle /\ ServicesIdle

NextUploads == Arrive \/ Resume

SpecUploads == InitUploads /\ [][NextUploads]_vars

---------------------------------------------------------------------------
(* ConversationService of conversation_service.py                          *)
(*                                                                         *)
(* active_conversations maps a call_sid to its session; the messages of a  *)
(* session are its history.                                                *)

MaxMessages == 4         \* most messages of one history

CallSids == {"CA1", "CA2"}
AiResponseText == <<"S","u","r","e">>

\* the sentiment _analyze_input gives a customer input
InputSentiment(text) ==
    LET
        CONVERSATION_NEGATIVE_WORDS ==
            << <<"a","n","g","r","y">>,
               <<"f","r","u","s","t","r","a","t","e","d">>,
               <<"t","e","r","r","i","b","l","e">>,
               <<"w","o","r","s","t">>,
               <<"h","a","t","e">>,
               <<"c","a","n","c","e","l">>,
               <<"r","e","f","u","n","d">>,
               <<"c","o","m","p","l","a","i","n","t">>,
               <<"d","i","s","a","p","p","o","i","n","t","e","d">>,
               <<"u","n","a","c","c","e","p","t","a","b","l","e">> >>
        CONVERSATION_POSITIVE_WORDS ==
            << <<"g","r","e","a","t">>,
               <<"e","x","c","e","l","l","e","n","t">>,
               <<"w","o","n","d","e","r","f","u","l">>,
               <<"h","a","p","p","y">>,
               <<"s","a","t","i","s","f","i","e","d">>,
               <<"t","h","a","n","k">>,
               <<"a","p","p","r","e","c","i","a","t","e">>,
               <<"l","o","v","e">>,
               <<"p","e","r","f","e","c","t">> >>
    IN
    LET text_lower == Lower(text)
    IN  IF AnyIn(text_lower, CONVERSATION_NEGATIVE_WORDS) THEN "negative"
        ELSE IF AnyIn(text_lower, CONVERSATION_POSITIVE_WORDS) THEN "positive"
        ELSE "neutral"

\* the session start_conversation creates
NewConversation(language) ==
    [ messages |-> << >>, language |-> language, sentiment |-> "neutral" ]

\* conversations[call_sid] = conversation
Assign(conversations, call_sid, conversation) ==
    Merge(conversations, [c \in {call_sid} |-> conversation])

\* get_ai_response on the sessions; completes tells whether the chat
\* completion returns (it raises otherwise).  The customer message is
\* appended before the completion is asked for, and the except branch
\* returns the apology without touching the history
GetAiResponseOn(conversations, call_sid, customer_input, completes) ==
    LET started == IF call_sid \notin DOMAIN conversations
                   THEN Assign(conversations, call_sid, NewConversation("en"))
                   ELSE conversations
        conversation == started[call_sid]
        asked == [ conversation EXCEPT !.messages =
                     Append(@, [role |-> "user", content |-> customer_input]) ]
        answered == [ asked EXCEPT !.messages =
                        Append(@, [role |-> "assistant", content |-> AiResponseText]),
                      !.sentiment = InputSentiment(customer_input) ]
    IN  IF completes
        THEN [ conversations |-> Assign(started, call_sid, answered),
               response |-> AiResponseText, sentiment |-> answered.sentiment ]
        ELSE [ conversations |-> Assign(started, call_sid, asked),
               response |-> <<"I"," ","a","p","o","l","o","g","i","z","e">>,
               sentiment |-> "neutral" ]

\* ConversationService.start_conversation
StartConversation ==
    /\ \E call_sid \in CallSids :
          /\ active_conversations' =
                Assign(active_conversations, call_sid, NewConversation("en"))
          /\ last' = [handler |-> "start_conversation", call_sid |-> call_sid]
    /\ UNCHANGED <<calls_collection, now, engineVars, safetyVars, uploadVars>>

\* ConversationService.get_ai_response
GetAiResponse ==
    LET
        CustomerInputs == { NlpWords[4], NlpWords[8] }
    IN
    /\ \E call_sid \in CallSids, customer_input \in CustomerInputs, completes \in BOOLEAN :
          /\ call_sid \in DOMAIN active_conversations =>
                Len(active_conversations[call_sid].messages) + 2 <= MaxMessages
          /\ \E out \in { GetAiResponseOn(active_conversations, call_sid,
                                          customer_input, completes) } :
                /\ active_conversations' = out.conversations
                /\ last' = [ handler |-> "get_ai_response", call_sid |-> call_sid,
                             completes |-> completes, response |-> out.response,
                             sentiment |-> out.sentiment ]
    /\ UNCHANGED <<calls_collection, now, engineVars, safetyVars, uploadVars>>

\* ConversationService.end_conversation
EndConversation ==
    /\ \E call_sid \in CallSids :
          /\ active_conversations' =
                IF DOMAIN active_conversations \ {call_sid} = {} THEN << >>
                ELSE Restrict(active_conversations, DOMAIN active_conversations \ {call_sid})
          /\ last' = [handler |-> "end_conversation", call_sid |-> call_sid]
    /\ UNCHANGED <<calls_collection, now, engineVars, safetyVars, uploadVars>>

InitVoice == EngineIdle /\ SafetyIdle /\ AppIdle /\ ServicesIdle

NextVoice == StartConversation \/ GetAiResponse \/ EndConversation

SpecVoice == InitVoice /\ [][NextVoice]_vars

---------------------------------------------------------------------------
(* The inputs as the properties name them *)

Has(d, key) == key \in DOMAIN d
Returned == pc = "returned"

\* the intent evaluate works with
InIntent == IF Has(nlp_analysis, "intent") THEN nlp_analysis.intent ELSE "general_inquiry"
RecRisk == IF Has(llm_output, "risk_level") THEN llm_output.risk_level ELSE "low"
RecOpportunity ==
    IF Has(llm_output, "opportunity_level") THEN llm_output.opportunity_level ELSE "low"
RecAction ==
    IF Has(llm_output, "recommended_action") THEN llm_output.recommended_action
    ELSE DEFAULT_ACTION
IntPriorityGiven == Has(llm_output, "priority_score") /\ llm_output.priority_score.kind = "int"

InSentiment == IF Has(nlp_analysis, "sentiment") THEN nlp_analysis.sentiment ELSE EmptyDict
InKeywords == IF Has(nlp_analysis, "keywords") THEN nlp_analysis.keywords ELSE EmptyDict
InEntities == IF Has(nlp_analysis, "entities") THEN nlp_analysis.entities ELSE EmptyDict

\* the audit trail holds an entry of the rule
Fired(rule) == \E i \in DOMAIN decision.rules_applied : decision.rules_applied[i].rule = rule
Levels == {"low", "medium", "high"}
ESCALATE_WORD == <<"E","s","c","a","l","a","t","e">>

---------------------------------------------------------------------------
\* C1: evaluate never raises for a recommendation with missing fields, a
\* string priority_score or an unknown risk/opportunity level, when the signal
\* bundle has empty keywords and entities.
C1_NeverRaises ==
    (DOMAIN InKeywords = {} /\ DOMAIN InEntities = {}) => pc # "raised"

\* C2: a high-risk input yields escalation_required, and a final_action that
\* contains "Escalate" unless rule 5 overrode the action text.
C2_HighRiskKeepsEscalation ==
    (Returned /\ RecRisk = "high") =>
        /\ decision.escalation_required
        /\ Contains(decision.final_action, ESCALATE_WORD) \/ Fired("RULE_5")

\* C3: with intent churn_risk and an integer priority p, the decision's
\* priority is max(p, 90), escalation_required holds and the RULE_2 entry
\* records p and the result.
C3_ChurnFloor ==
    (Returned /\ InIntent = "churn_risk" /\ IntPriorityGiven) =>
        LET p == llm_output.priority_score.n
            q == IF p >= 90 THEN p ELSE 90
        IN  /\ decision.priority_score = IntV(q)
            /\ decision.priority_score.n >= 90
            /\ decision.escalation_required
            /\ \E i \in DOMAIN decision.rules_applied :
                    decision.rules_applied[i] = [rule |-> "RULE_2", from |-> p, to |-> q]

C3_Witness ==
    /\ Returned /\ InIntent = "churn_risk" /\ IntPriorityGiven
    /\ llm_output.priority_score.n = 10
    /\ decision.priority_score.n = 90

\* C4: a high-risk complaint ends with the retention-routing action, not the
\* escalation action, with escalation_required, and RULE_1 is recorded before
\* RULE_5.
C4_RetentionWins ==
    (Returned /\ InIntent = "complaint" /\ RecRisk = "high") =>
        /\ decision.final_action = RETENTION_ACTION
        /\ decision.final_action # ESCALATE_ACTION
        /\ decision.escalation_required
        /\ \E i, j \in DOMAIN decision.rules_applied :
                /\ i < j
                /\ decision.rules_applied[i].rule = "RULE_1"
                /\ decision.rules_applied[j].rule = "RULE_5"

C4_Witness ==
    /\ Returned /\ InIntent = "complaint" /\ RecRisk = "high"
    /\ RecAction = ActionContactSupport
    /\ decision.final_action = RETENTION_ACTION

\* C5: urgent_flag holds exactly when the decision's priority_score (after
\* rule 2) is strictly above 85; 85 itself gives false; every churn_risk
\* input gives true.
C5_UrgentIffAbove85 ==
    Returned =>
        /\ decision.urgent_flag <=> decision.priority_score.n > 85
        /\ decision.priority_score.n = 85 => ~decision.urgent_flag
        /\ InIntent = "churn_risk" => decision.urgent_flag

C5_Witness ==
    /\ Returned /\ InIntent = "churn_risk" /\ IntPriorityGiven
    /\ llm_output.priority_score.n = 85
    /\ decision.priority_score.n = 90
    /\ decision.urgent_flag

\* C6: for a demo_request with high opportunity, the action held when rule 6
\* runs is kept if it contains "schedule demo" in any letter case and is
\* replaced by the fast-track action otherwise; RULE_6 is recorded either way.
C6_DemoFastTrack ==
    (Returned /\ InIntent = "demo_request" /\ RecOpportunity = "high") =>
        LET held == IF RecRisk = "high" THEN ESCALATE_ACTION ELSE RecAction
            ra == decision.rules_applied
        IN  /\ decision.final_action =
                   IF Contains(Lower(held), SCHEDULE_DEMO) THEN held
                   ELSE FAST_TRACK_ACTION
            /\ Len(ra) > 0
            /\ ra[Len(ra)] = [rule |-> "RULE_6"]

C6_Witness ==
    /\ Returned /\ InIntent = "demo_request" /\ RecOpportunity = "high"
    /\ RecRisk = "low"
    /\ RecAction = ActionScheduleDemo
    /\ decision.final_action = ActionScheduleDemo
    /\ Fired("RULE_6")

\* C7: confidence_score is min(100, 70 + 10 per signal present) for strong
\* sentiment (|compound| > 0.5), non-empty keywords, non-empty entities,
\* whatever the recommendation; it lies in 70..100 and does not decrease when
\* signals are added.
Strong(s) ==
    LET c == IF Has(s, "compound") THEN s.compound ELSE 0
    IN  c > 50 \/ c < -50
Bonus(b) == IF b THEN 10 ELSE 0
ExpectedConfidence(s, k, e) ==
    LET raw == 70 + Bonus(Strong(s)) + Bonus(DOMAIN k # {}) + Bonus(DOMAIN e # {})
    IN  IF raw > 100 THEN 100 ELSE raw

C7_Confidence ==
    Returned =>
        /\ decision.confidence_score = ExpectedConfidence(InSentiment, InKeywords, InEntities)
        /\ decision.confidence_score \in 70..100
        /\ \A s2 \in Sentiments, k2 \in KeywordDicts, e2 \in EntityLists :
              ( /\ Strong(InSentiment) => Strong(s2)
                /\ DOMAIN InKeywords # {} => DOMAIN k2 # {}
                /\ DOMAIN InEntities # {} => DOMAIN e2 # {} )
              => CalculateConfidence(s2, k2, e2) >= decision.confidence_score

C7_Witness ==
    /\ Returned
    /\ Has(InSentiment, "compound") /\ InSentiment.compound = 50
    /\ DOMAIN InKeywords # {} /\ DOMAIN InEntities = {}
    /\ decision.confidence_score = 80

\* C8: an integer recommendation priority, in or out of 0..100, yields a
\* decision priority_score that is an integer in 0..100.
C8_PriorityInRange ==
    (Returned /\ IntPriorityGiven) =>
        /\ decision.priority_score.kind = "int"
        /\ decision.priority_score.n \in 0..100

\* C9: the decision's risk_level and opportunity_level are each one of low,
\* medium, high.
C9_LevelsInClosedSet ==
    Returned =>
        /\ decision.risk_level \in Levels
        /\ decision.opportunity_level \in Levels

\* C10: an absent recommendation field takes its default (risk "low",
\* opportunity "low", priority 50, action "Review call manually") before any
\* rule reads it; an empty recommendation with no rule firing yields the
\* default action, priority 50, the three flags false and no audit entry.
C10_Defaults ==
    /\ (DOMAIN llm_output = {} /\ pc # "called") => Returned
    /\ Returned =>
        /\ ~Has(llm_output, "risk_level") =>
              /\ decision.risk_level = "low"
              /\ ~Fired("RULE_1") /\ ~Fired("RULE_5")
              /\ RecOpportunity = "high" => decision.revenue_opportunity
        /\ ~Has(llm_output, "opportunity_level") =>
              /\ decision.opportunity_level = "low"
              /\ ~Fired("RULE_3") /\ ~Fired("RULE_6")
        /\ ~Has(llm_output, "priority_score") =>
              /\ decision.priority_score =
                     IntV(IF InIntent = "churn_risk" THEN 90 ELSE 50)
              /\ decision.urgent_flag <=> InIntent = "churn_risk"
        /\ ( /\ ~Has(llm_output, "recommended_action")
             /\ RecRisk # "high"
             /\ ~(InIntent = "demo_request" /\ RecOpportunity = "high") )
              => decision.final_action = DEFAULT_ACTION
        /\ (DOMAIN llm_output = {} /\ InIntent # "churn_risk") =>
              /\ decision.final_action = DEFAULT_ACTION
              /\ decision.priority_score = IntV(50)
              /\ ~decision.escalation_required
              /\ ~decision.urgent_flag
              /\ ~decision.revenue_opportunity
              /\ decision.rules_applied = << >>

C10_Witness ==
    /\ Returned
    /\ DOMAIN llm_output = {}
    /\ InIntent = "pricing_inquiry"
    /\ decision.final_action = DEFAULT_ACTION
    /\ decision.rules_applied = << >>

\* C11: rules_applied holds exactly one entry for each rule whose condition
\* held (rule 4 read on the priority after rule 2) and none for any other
\* rule, in the order RULE_1 .. RULE_6; it is empty when no rule fires.
PriorityAfterRule2 ==
    LET p == IF Has(llm_output, "priority_score") THEN llm_output.priority_score.n ELSE 50
    IN  IF InIntent = "churn_risk" /\ p < 90 THEN 90 ELSE p
RuleHeld(rule) ==
    CASE rule = "RULE_1" -> RecRisk = "high"
      [] rule = "RULE_2" -> InIntent = "churn_risk"
      [] rule = "RULE_3" -> RecOpportunity = "high" /\ RecRisk = "low"
      [] rule = "RULE_4" -> PriorityAfterRule2 > 85
      [] rule = "RULE_5" -> InIntent = "complaint" /\ RecRisk = "high"
      [] rule = "RULE_6" -> InIntent = "demo_request" /\ RecOpportunity = "high"
RuleNames == <<"RULE_1", "RULE_2", "RULE_3", "RULE_4", "RULE_5", "RULE_6">>
ExpectedTrail == SelectSeq(RuleNames, RuleHeld)
TrailNames == [i \in DOMAIN decision.rules_applied |-> decision.rules_applied[i].rule]

C11_AuditTrail ==
    Returned =>
        /\ Len(TrailNames) = Len(ExpectedTrail)
        /\ \A i \in 1..Len(ExpectedTrail) : TrailNames[i] = ExpectedTrail[i]
        /\ (\A i \in 1..6 : ~RuleHeld(RuleNames[i])) => decision.rules_applied = << >>

C11_Witness ==
    /\ Returned
    /\ InIntent = "complaint" /\ RecRisk = "high"
    /\ PriorityAfterRule2 = 95
    /\ Len(decision.rules_applied) = 3
    /\ decision.rules_applied[3].rule = "RULE_5"

\* C12: revenue_opportunity holds exactly when opportunity_level is high and
\* risk_level is low; rule 3 sets only that flag and its audit entry:
\* final_action, priority_score, escalation_required and urgent_flag are what
\* the other five rules alone produce.
WithoutRule3 == Rule6(Rule5(Rule4(Rule2(Rule1(Extract(nlp_analysis, llm_output))))))

C12_RevenueFlagOnly ==
    Returned =>
        /\ decision.revenue_opportunity <=> (RecOpportunity = "high" /\ RecRisk = "low")
        /\ decision.revenue_opportunity <=> Fired("RULE_3")
        /\ decision.final_action = WithoutRule3.final_action
        /\ decision.priority_score = WithoutRule3.priority_score
        /\ decision.escalation_required = WithoutRule3.escalation_required
        /\ decision.urgent_flag = WithoutRule3.urgent_flag

C12_Witness ==
    /\ Returned
    /\ RecOpportunity = "high" /\ RecRisk = "low"
    /\ decision.revenue_opportunity
    /\ Fired("RULE_3")
    /\ ~decision.urgent_flag
    /\ decision.final_action = ActionContactSupport

\* C14: validate_action_safety returns is_safe false exactly when the text
\* holds '$' or '%'; each of discount, refund, compensation, free, waive found
\* in any letter case adds one warning and leaves is_safe alone; a text with
\* none of them and no '$' or '%' gives is_safe true and no warning.
HasChar(text, ch) == \E i \in DOMAIN text : text[i] = ch
HasMoneyChar(text) == HasChar(text, "$") \/ HasChar(text, "%")
TokenIn(text, token) == Contains(Lower(text), token)
WarningsFor(token) ==
    Cardinality({ i \in DOMAIN safety_result.warnings :
                    safety_result.warnings[i] = [kind |-> "risky_keyword", keyword |-> token] })
TokensFound ==
    Cardinality({ k \in DOMAIN RISKY_KEYWORDS : TokenIn(safety_action, RISKY_KEYWORDS[k]) })

C14_ActionSafety ==
    safety_pc = "returned" =>
        /\ ~safety_result.is_safe <=> HasMoneyChar(safety_action)
        /\ \A k \in DOMAIN RISKY_KEYWORDS :
              WarningsFor(RISKY_KEYWORDS[k]) =
                  IF TokenIn(safety_action, RISKY_KEYWORDS[k]) THEN 1 ELSE 0
        /\ Len(safety_result.warnings) =
              TokensFound + (IF HasMoneyChar(safety_action) THEN 1 ELSE 0)
        /\ (TokensFound = 0 /\ ~HasMoneyChar(safety_action)) =>
              safety_result.is_safe /\ safety_result.warnings = << >>

C14_Witness ==
    /\ safety_pc = "returned"
    /\ safety_action = Join(<<SafetyWords[6], SafetyWords[4]>>)
    /\ safety_result.is_safe
    /\ Len(safety_result.warnings) = 2

---------------------------------------------------------------------------
(* Claims about the stored call records (SpecDb) *)

ListCalled == last.handler = "get_all_calls"
KeyOf(call) == call.final_decision.priority_score.n
Matching(status_filter) ==
    { i \in DOMAIN calls_collection :
        Truthy(status_filter) => calls_collection[i].status = status_filter }
ReturnedPositions ==
    { i \in DOMAIN calls_collection :
        \E k \in DOMAIN last.calls : last.calls[k]._id = StrOfObjectId(calls_collection[i]._id) }

Reviewed == {"approved", "rejected"}

\* C16: a stored record starts pending and its status changes only from
\* pending to approved or rejected: a reviewed record never changes status.
C16_StatusTransitions ==
    [][ /\ \A i \in DOMAIN calls_collection' \ DOMAIN calls_collection :
              calls_collection'[i].status = "pending"
        /\ \A i \in DOMAIN calls_collection :
              calls_collection[i].status \in Reviewed =>
                  calls_collection'[i].status = calls_collection[i].status ]_vars

WriteOnceFields == {"_id", "transcript", "nlp_analysis", "llm_output", "final_decision"}
StatusFields == {"status", "updated_at", "approval_notes"}

\* C17: no approve-action, reject-action or send-email request changes a
\* stored record's final_decision, transcript, nlp_analysis or llm_output, and
\* update_call_status writes only status, updated_at and approval_notes.
C17_DecisionWriteOnce ==
    [][ \A i \in DOMAIN calls_collection :
          /\ i \in DOMAIN calls_collection'
          /\ \A k \in WriteOnceFields :
                /\ k \in DOMAIN calls_collection'[i]
                /\ calls_collection'[i][k] = calls_collection[i][k]
          /\ last'.handler \in {"approve_action", "reject_action"} =>
                /\ DOMAIN calls_collection'[i] \ DOMAIN calls_collection[i] \subseteq StatusFields
                /\ \A k \in DOMAIN calls_collection[i] \ StatusFields :
                      /\ k \in DOMAIN calls_collection'[i]
                      /\ calls_collection'[i][k] = calls_collection[i][k] ]_vars

\* a record approved with notes: status, updated_at and approval_notes are
\* written and the Decision is the one that was stored
C17_Witness ==
    /\ last.handler = "approve_action" /\ last.code = 200
    /\ \E i \in DOMAIN calls_collection :
          /\ StrOfObjectId(calls_collection[i]._id) = last.call_id
          /\ calls_collection[i].status = "approved"
          /\ "approval_notes" \in DOMAIN calls_collection[i]
          /\ calls_collection[i].updated_at > calls_collection[i].created_at
          /\ \E payload \in DbPayloads :
                /\ calls_collection[i].final_decision = payload.final_decision
                /\ calls_collection[i].transcript = payload.transcript

---------------------------------------------------------------------------
(* Claims about the pipeline entry points (SpecPipeline) *)

SingleRun == last.handler \in {"process_call", "save_call"}
BatchRun == last.handler = "batch_process_calls" /\ last.code = 200

\* C18: in every pipeline entry point, when generate_intelligence returns an
\* object tagged "error", evaluate is never called with it and no record is
\* stored for that audio.
C18_ErrorObjectShortCircuits ==
    /\ SingleRun /\ last.generated /\ IsErrorObject(last.audio.llm_output) =>
          ~last.evaluated /\ ~last.stored
    /\ BatchRun =>
          \A k \in DOMAIN last.files :
              last.trace[k].generated /\ IsErrorObject(last.files[k].llm_output) =>
                  ~last.trace[k].evaluated /\ ~last.trace[k].stored

\* a stage of the pipeline fails for the audio
StageFails(audio) ==
    \/ audio.suffix \notin ALLOWED_EXTENSIONS
    \/ audio.raises # "none"
    \/ IsErrorObject(audio.llm_output)
    \/ ApplyRules(Extract(AnalysisOf(audio), audio.llm_output)).exc # "None"

\* C19: in POST /calls/batch a failure at any stage of one file's pipeline is
\* an error result for that file only and every other file is processed; there
\* is exactly one result per submitted file and successful + failed =
\* total_files.
C19_BatchIsolation ==
    BatchRun =>
        /\ Len(last.results) = Len(last.files)
        /\ last.total_files = Len(last.files)
        /\ last.successful + last.failed = last.total_files
        /\ \A k \in DOMAIN last.files :
              /\ last.results[k].filename = last.files[k].filename
              /\ last.results[k].status = IF StageFails(last.files[k]) THEN "error" ELSE "success"

\* C20: a POST /process-call whose stages all succeed stores exactly one
\* record, holding the transcript, the signal bundle, the recommendation and
\* the Decision with status pending, and answers with that record's call_id.
C20_ProcessCallStores ==
    [][ last'.handler = "process_call" /\ ~StageFails(last'.audio) =>
          /\ last'.code = 200
          /\ Len(calls_collection') = Len(calls_collection) + 1
          /\ SubSeq(calls_collection', 1, Len(calls_collection)) = calls_collection
          /\ LET call == calls_collection'[Len(calls_collection')]
             IN  /\ call.transcript = last'.audio.transcript
                 /\ call.nlp_analysis = AnalysisOf(last'.audio)
                 /\ call.llm_output = last'.audio.llm_output
                 /\ call.final_decision =
                       Assemble(ApplyRules(Extract(AnalysisOf(last'.audio),
                                                   last'.audio.llm_output)))
                 /\ call.status = "pending"
                 /\ last'.call_id = StrOfObjectId(call._id) ]_vars

---------------------------------------------------------------------------
(* Further claims about evaluate (Spec) *)

\* C28: escalation_required of a returned Decision is true exactly when
\* risk_level is high or intent is churn_risk; whenever rule 5 fires rule 1
\* has fired too, so rule 5 never sets the flag on its own.
C28_EscalationIff ==
    Returned =>
        /\ decision.escalation_required <=> (RecRisk = "high" \/ InIntent = "churn_risk")
        /\ Fired("RULE_5") => Fired("RULE_1")

\* a churn-risk call of low risk: rule 2 alone sets the flag
C28_Witness ==
    /\ Returned
    /\ InIntent = "churn_risk" /\ RecRisk = "low"
    /\ ~Fired("RULE_1") /\ Fired("RULE_2")
    /\ decision.escalation_required

---------------------------------------------------------------------------
(* Claims about the signal extractors (SpecNlp) *)

AnalyzeReturned == last.handler \in {"AINLPService.analyze", "NLPService.analyze"} /\ last.pc = "returned"

\* C21: every bundle AINLPService.analyze returns, normalised or fallback, has
\* sentiment.compound in [-1, 1] and a label consistent with it: positive iff
\* compound > 0.2, negative iff compound < -0.2, neutral otherwise.
C21_SentimentConsistent ==
    last.handler = "AINLPService.analyze" /\ last.pc = "returned" =>
        /\ last.result.sentiment.compound >= COMPOUND_MIN
        /\ last.result.sentiment.compound <= COMPOUND_MAX
        /\ last.result.sentiment.sentiment_label = LabelOf(last.result.sentiment.compound)

\* the closed enumeration of intents of the data model
INTENT_ENUMERATION ==
    {"demo_request", "complaint", "pricing_inquiry", "cancellation", "churn_risk",
     "information_request", "interest_declaration", "objection", "qualified_lead",
     "competitor_comparison", "urgent_followup", "general_inquiry", "other"}

\* C22: every bundle an extractor's analyze returns carries an intent of the
\* closed enumeration; no transcript yields None or a value outside it.
C22_IntentInEnumeration ==
    AnalyzeReturned => last.result.intent \in INTENT_ENUMERATION

---------------------------------------------------------------------------
(* Claims about generate_intelligence (SpecLlm) *)

GenerateReturned ==
    last.handler = "LLMService.generate_intelligence" /\ last.pc = "returned"

IsIntValue(v) == v.kind = "int"

\* C23: a recommendation returned without an error tag holds all seven
\* fields and a priority_score that is an integer
C23_SevenFieldsIntPriority ==
    (GenerateReturned /\ last.exc = "None" /\ ~IsErrorObject(last.result)) =>
        /\ \A i \in DOMAIN REQUIRED_FIELDS : REQUIRED_FIELDS[i] \in DOMAIN last.result
        /\ IsIntValue(last.result["priority_score"])

\* C24: generate_intelligence never raises, and an API failure or a reply
\* that is not valid JSON makes it return an object tagged "error"
C24_NeverRaises ==
    GenerateReturned =>
        /\ last.exc = "None"
        /\ last.reply.outcome \in {"api_error", "not_json"} => IsErrorObject(last.result)

C24_Witness ==
    /\ GenerateReturned
    /\ last.reply.outcome = "api_error"
    /\ last.exc = "None"
    /\ last.result = LlmError
    /\ last.nlp_analysis["intent"] = "cancellation"

---------------------------------------------------------------------------
(* Claims about the reminder scheduler (SpecScheduler) *)

\* a call that is pending, has reached its reminder threshold and has no
\* reminder yet
DueForReminder(call, current_time) ==
    /\ call.status = "pending"
    /\ current_time - call.created_at >= ReminderHours(call)
    /\ Get(call, "reminders_sent", << >>) = << >>

\* C25: a scheduler check emails a reminder for every call that has stayed
\* pending for at least its reminder threshold
C25_PendingCallReminded ==
    last.handler = "send_reminders" =>
        \A i \in DOMAIN calls_collection :
            DueForReminder(calls_collection[i], last.current_time) => i \in last.emailed

---------------------------------------------------------------------------
(* Further claims about the pipeline entry points (SpecPipeline) *)

\* the stage returned successfully for the audio, on the collection coll at
\* time t
StageOk(stage, audio, coll, t) ==
    CASE stage = "transcribe" -> audio.raises # "transcribe"
      [] stage = "analyze"    -> TRUE
      [] stage = "rag"        -> audio.raises # "rag"
      [] stage = "generate"   -> ~IsErrorObject(audio.llm_output)
      [] stage = "evaluate"   ->
            ApplyRules(Extract(AnalysisOf(audio), audio.llm_output)).exc = "None"
      [] stage = "store"      ->
            StoreCall(coll,
                      Merge(StoreKwargs(audio,
                                Assemble(ApplyRules(Extract(AnalysisOf(audio),
                                                            audio.llm_output)))),
                            LanguageKwargs),
                      audio.raises = "store", t).exc = "None"

\* C26: within one POST /process-call the stages start in the order
\* transcribe, analyze, rag, generate, evaluate, store, each only after the
\* one before it returned successfully; when a stage fails no later stage
\* runs, no record is stored and the response is an error.
C26_StagesInOrder ==
    [][ last'.handler = "process_call" =>
          LET stages == last'.stages
              audio == last'.audio
              ok(k) == StageOk(stages[k], audio, calls_collection, now + 1)
          IN  /\ stages = SubSeq(PIPELINE_STAGES, 1, Len(stages))
              /\ \A k \in 1..(Len(stages) - 1) : ok(k)
              /\ (Len(stages) > 0 /\ Len(stages) < Len(PIPELINE_STAGES)) => ~ok(Len(stages))
              /\ (\E k \in DOMAIN stages : ~ok(k)) =>
                     /\ calls_collection' = calls_collection
                     /\ ~last'.stored
                     /\ last'.code = 500 ]_vars

C26_Witness ==
    /\ last.handler = "process_call"
    /\ last.audio.raises = "rag"
    /\ last.stages = <<"transcribe", "analyze", "rag">>
    /\ last.code = 500
    /\ ~last.stored
    /\ calls_collection # << >>

\* the decision carries no RULE_2 entry and the priority the recommendation
\* gave
NoChurnRule(final_decision, audio) ==
    final_decision # NoDecision =>
        /\ \A i \in DOMAIN final_decision.rules_applied :
                final_decision.rules_applied[i].rule # "RULE_2"
        /\ final_decision.priority_score =
                Get(audio.llm_output, "priority_score", IntV(DEFAULT_PRIORITY))

\* C29: every intent AINLPService.analyze emits in process-call and batch is
\* one of its eight valid intents, so no decision of those pipelines carries
\* the RULE_2 entry or a priority raised by the churn-risk floor.
C29_NoChurnThroughPipelines ==
    /\ last.handler = "process_call" =>
          /\ AnalysisOf(last.audio).intent \in VALID_INTENTS
          /\ NoChurnRule(last.final_decision, last.audio)
    /\ BatchRun =>
          \A k \in DOMAIN last.files :
              /\ AnalysisOf(last.files[k]).intent \in VALID_INTENTS
              /\ NoChurnRule(last.trace[k].final_decision, last.files[k])

C29_Witness ==
    /\ BatchRun
    /\ \E k \in DOMAIN last.files :
          /\ last.files[k].nlp_reply = ChurnReply
          /\ last.trace[k].stored
          /\ last.trace[k].final_decision.intent = "other"
          /\ last.trace[k].final_decision.priority_score = IntV(85)

---------------------------------------------------------------------------
(* Claims about concurrent uploads (SpecUploads) *)

Resumed == last.handler \in UploadHandlers

---------------------------------------------------------------------------
(* Claims about the conversation sessions (SpecVoice) *)

\* the history alternates user and assistant messages, user first, and has
\* even length
Alternates(messages) ==
    /\ Len(messages) % 2 = 0
    /\ \A k \in DOMAIN messages :
          messages[k].role = IF k % 2 = 1 THEN "user" ELSE "assistant"

\* C30: after any sequence of get_ai_response calls, successful or failed,
\* the history of every session is a strict alternation of user and
\* assistant messages that starts with a user message and has even length.
C30_HistoryAlternates ==
    \A call_sid \in DOMAIN active_conversations :
        Alternates(active_conversations[call_sid].messages)

============================================================================
